---- MODULE Spec2Model ----
(***************************************************************************)
(* Tool-use negotiation protocol of llm-catan-arena: the action id mapper  *)
(* (src/mcp/action_mapper.py), the tool server (src/mcp/server.py) and the *)
(* tool-calling player (src/players/mcp_based).                            *)
(*                                                                         *)
(* Strings are TLC strings; ids are computed character by character the    *)
(* way the Python code computes them (split on ".", lower(), "_".join).    *)
(* A move is an engine object: it is identified by its object identity     *)
(* (oid, Python's id()) and carries an action_type and a value.            *)
(***************************************************************************)
EXTENDS Integers, Sequences, FiniteSets, TLC

VARIABLES
    \* ActionMapper
    use_descriptive_ids,  \* ActionMapper.use_descriptive_ids
    actions,              \* ActionMapper.actions: the list of moves (oids)
    id_to_action,         \* dict id -> move, as the insertion-ordered list of <<id, oid>>
    action_to_id,         \* dict id(move) -> id, as a function on oids
    \* CatanatronMCPServer
    game_wrapper,         \* None, or the wrapper built by set_game_context
    selected_action_id,   \* None, or the id recorded by select_action
    \* what the caller of the mapper or the server has seen
    kept_id,              \* an id the caller read from the mapper and kept
    kept_stale,           \* TRUE when set_actions has been called since kept_id was read
    last_call,            \* the latest operation that was called
    last_result,          \* what that operation returned
    last_accepted,        \* the id of the latest accepted select_action of this context
    \* BaseMCPPlayer / OpenRouterToolsPlayer, one decide() call at a time
    pc,                   \* where decide() is: new, request, tools, finish, returned
    playable_actions,     \* the list passed to the current decide()
    max_retries,          \* OpenRouterToolsPlayer.max_retries
    turn,                 \* the loop variable of "for turn in range(max_turns)"
    attempt,              \* the loop variable of "for attempt in range(self.max_retries)"
    calls_left,           \* tool calls of the current response not yet processed
    attempts_made,        \* transport attempts made in this decide()
    returned,             \* the move the latest decide() returned
    used_fallback,        \* whether _fallback_action picked it
    responses,            \* responses received from the transport in this decide()
    total_input_tokens,   \* total_input_tokens of query_llm_with_mcp
    total_output_tokens,  \* total_output_tokens of query_llm_with_mcp
    cost,                 \* the cost query_llm_with_mcp returned to decide()
    tokens,               \* the tokens query_llm_with_mcp returned to decide()
    ended_by,             \* the return statement that ended query_llm_with_mcp
    last_tool,            \* tool_name of the latest pass of "for tool_call in tool_calls"
                          \* over the response in hand
    \* OpenRouterToolsPlayer._make_request_with_retry, one request on its own
    retry_delay,          \* OpenRouterToolsPlayer.retry_delay
    waits,                \* the arguments of time.sleep during the request, in order
    request,              \* none, running, returned (a response) or failed (None)
    \* CatanGameRunner.run_tournament with max_workers threads
    mcp_server,           \* runner._mcp_server: 0 for None, or the number of an instance
    servers_created,      \* CatanatronMCPServer instances constructed so far
    games_to_run,         \* games of the tournament not yet taken by a thread
    thread_pc,            \* per thread: idle, create_players, construct, return, playing
    players_left,         \* per thread: MCP players of its game still to be created
    game_servers,         \* per thread: the server instances its game's players hold
    \* the engine's game and CatanatronGameWrapper.get_state
    game,                 \* the game object: game.state and which attributes it has
    state_call,           \* the latest get_game_state call: its viewer and arguments
    state_result,         \* what that call returned
    \* BaseMCPPlayer statistics over a sequence of decide() calls
    total_cost,           \* BaseMCPPlayer.total_cost
    total_tokens,         \* BaseMCPPlayer.total_tokens
    move_count,           \* BaseMCPPlayer.move_count
    recent_moves,         \* BaseMCPPlayer.recent_moves
    reported,             \* the (cost, tokens) pairs the LLM queries returned since the
                          \* player was built or reset, in order
    \* parse_player_spec
    player_spec,          \* the argument
    parsed,               \* the returned (model_key, mode), or NotParsed
    \* EloRating
    ratings,              \* EloRating.ratings
    game_counts,          \* EloRating.game_counts
    history,              \* EloRating.history
    elo_call,             \* the scores of the last update_ratings call
    elo_before,           \* ratings, game_counts and history before that call
    elo_changes,          \* what that call returned
    elo_games,            \* how many update_ratings calls had at least two players
    elo_thread,           \* per game thread: where it is in update_ratings, its locals
    \* _run_tournament_parallel
    games_completed,      \* the nonlocal games_completed
    run_cost,             \* the nonlocal total_cost
    run_tokens,           \* the nonlocal total_tokens
    all_results,          \* all_results
    lock,                 \* the thread holding lock, 0 when it is free
    futures,              \* per submitted game: its state and what run_single_game returned
    run_thread,           \* per pool thread: where it is in run_single_game, its locals
    \* the conversation of one query_llm_with_mcp call
    messages,             \* the local list messages
    requests,             \* the messages each request was sent with, in order
    pending,              \* the tool calls of the last response not yet processed
    executed,             \* the tool calls handed to mcp_server.handle_tool_call, in order
    conv_pc,              \* "request", "tools" or "returned"
    \* the decide() calls of the games running in parallel on the runner's server
    deciding              \* per game thread: where it is in decide(), its locals

mapper_vars == <<use_descriptive_ids, actions, id_to_action, action_to_id>>
server_vars == <<game_wrapper, selected_action_id>>
caller_vars == <<kept_id, kept_stale, last_call, last_result, last_accepted>>
player_vars == <<pc, playable_actions, max_retries, turn, attempt, calls_left,
                 attempts_made, returned, used_fallback, responses,
                 total_input_tokens, total_output_tokens, cost, tokens, ended_by,
                 last_tool>>
retry_vars == <<retry_delay, waits, request>>
tournament_vars == <<mcp_server, servers_created, games_to_run, thread_pc, players_left,
                     game_servers>>
engine_vars == <<game, state_call, state_result>>
stats_vars == <<total_cost, total_tokens, move_count, recent_moves, reported>>
core_vars == <<mapper_vars, server_vars, caller_vars, player_vars, retry_vars,
               tournament_vars, engine_vars>>
parse_vars == <<player_spec, parsed>>
elo_vars == <<ratings, game_counts, history, elo_call, elo_before, elo_changes, elo_games,
              elo_thread>>
run_vars == <<games_completed, run_cost, run_tokens, all_results, lock, futures,
              run_thread>>
conv_vars == <<messages, requests, pending, executed, conv_pc>>
extra_vars == <<stats_vars, parse_vars, elo_vars, run_vars, conv_vars, deciding>>
idle_in_stats ==
    <<retry_vars, tournament_vars, engine_vars, parse_vars, elo_vars, run_vars, conv_vars,
      deciding>>
idle_in_parse == <<core_vars, stats_vars, elo_vars, run_vars, conv_vars, deciding>>
idle_in_elo == <<core_vars, stats_vars, parse_vars, run_vars, conv_vars, deciding>>
idle_in_run == <<core_vars, stats_vars, parse_vars, elo_vars, conv_vars, deciding>>
idle_in_conv == <<core_vars, stats_vars, parse_vars, elo_vars, run_vars, deciding>>
idle_in_shared ==
    <<caller_vars, player_vars, retry_vars, tournament_vars, engine_vars, stats_vars,
      parse_vars, elo_vars, run_vars, conv_vars>>
vars == <<core_vars, extra_vars>>

\* Python's None: as a string or id, as a move, as a wrapper
None == "None"
NoMove == 0
NoWrapper == [player_color |-> None]

Max(S) == CHOOSE x \in S : \A y \in S : y <= x
Min(S) == CHOOSE x \in S : \A y \in S : x <= y

-----------------------------------------------------------------------------
(* Python string operations *)

UpperCase == "ABCDEFGHIJKLMNOPQRSTUVWXYZ"
LowerCase == "abcdefghijklmnopqrstuvwxyz"

CharAt(s, i) == SubSeq(s, i, i)

\* str.lower() on one character
LowerChar(c) ==
    LET hits == {i \in 1..Len(UpperCase) : CharAt(UpperCase, i) = c}
    IN  IF hits = {} THEN c ELSE CharAt(LowerCase, Max(hits))

\* str.lower()
RECURSIVE Lower(_)
Lower(s) == IF Len(s) = 0 THEN "" ELSE LowerChar(CharAt(s, 1)) \o Lower(Tail(s))

\* "." in s
HasDot(s) == \E i \in 1..Len(s) : CharAt(s, i) = "."

\* s.split(".")[-1]
SplitLast(s) ==
    LET dots == {i \in 1..Len(s) : CharAt(s, i) = "."}
    IN  IF dots = {} THEN s ELSE SubSeq(s, Max(dots) + 1, Len(s))

\* "_".join(parts)
RECURSIVE Join(_)
Join(parts) ==
    IF Len(parts) = 0 THEN ""
    ELSE IF Len(parts) = 1 THEN parts[1]
    ELSE parts[1] \o "_" \o Join(Tail(parts))

-----------------------------------------------------------------------------
(* Moves.  A value is None, an int, a str, a tuple of ints, or an object of *)
(* another type; action_type is an enum member whose str() is given, is     *)
(* absent (the class name is used), or has a str() that raises.  Moves 2    *)
(* and 3 are two objects with the same action type and value.               *)

NoValue      == [k |-> "none"]
IntValue(n)  == [k |-> "int", i |-> n]
StrValue(s)  == [k |-> "str", s |-> s]
TupValue(t)  == [k |-> "tuple", t |-> t]
OtherValue   == [k |-> "other"]

TypeStr(s)    == [k |-> "str", s |-> s]
TypeAbsent(c) == [k |-> "absent", cls |-> c]
TypeRaises    == [k |-> "raises"]

\* The moves the engine can hand over, by object identity.
MovePool ==
    <<  [action_type |-> TypeStr("ActionType.BUILD_ROAD"), value |-> TupValue(<<1, 2>>)],
        [action_type |-> TypeStr("ActionType.BUILD_ROAD"), value |-> TupValue(<<1>>)],
        [action_type |-> TypeStr("ActionType.BUILD_ROAD"), value |-> TupValue(<<1>>)],
        [action_type |-> TypeStr("ActionType.BUILD_ROAD"), value |-> IntValue(1)],
        [action_type |-> TypeStr("ActionType.END_TURN"),   value |-> NoValue]  >>

Oids == DOMAIN MovePool

MaxLen == 3

\* Lists of pairwise different move objects, of length 0..MaxLen.
RECURSIVE ListsOfLen(_)
ListsOfLen(n) ==
    IF n = 0 THEN {<<>>}
    ELSE {Append(l, o) : l \in ListsOfLen(n - 1), o \in Oids}

NoRepeat(l) == \A i, j \in 1..Len(l) : i # j => l[i] # l[j]

MoveLists == UNION {{l \in ListsOfLen(n) : NoRepeat(l)} : n \in 0..MaxLen}

\* The lists the engine generates in one fixed order: the sublists of the pool.
Ascending(l) == \A i, j \in 1..Len(l) : i < j => l[i] < l[j]
EngineLists == {l \in MoveLists : Ascending(l)}

Range(l) == {l[i] : i \in 1..Len(l)}

\* The (action type, value) discriminator of a move.
Discriminator(o) == <<MovePool[o].action_type, MovePool[o].value>>

-----------------------------------------------------------------------------
(* ActionMapper *)

\* dict lookups on the insertion-ordered list of pairs
Keys(d) == {d[i][1] : i \in 1..Len(d)}
HasKey(d, key) == \E i \in 1..Len(d) : d[i][1] = key
Lookup(d, key) ==
    IF HasKey(d, key) THEN d[CHOOSE i \in 1..Len(d) : d[i][1] = key][2] ELSE NoMove
\* d[key] = val: an existing key keeps its position, a new key goes last
Store(d, key, val) ==
    IF HasKey(d, key)
    THEN [i \in 1..Len(d) |-> IF d[i][1] = key THEN <<key, val>> ELSE d[i]]
    ELSE Append(d, <<key, val>>)

\* [str(v) for v in value]
RECURSIVE StrEach(_)
StrEach(t) == IF Len(t) = 0 THEN <<>> ELSE <<ToString(t[1])>> \o StrEach(Tail(t))

\* the parts appended for action.value
ValueParts(value) ==
    CASE value.k = "int"   -> <<ToString(value.i)>>
      [] value.k = "str"   -> <<Lower(value.s)>>
      [] value.k = "tuple" -> StrEach(value.t)
      [] OTHER             -> <<>>

\* the action type token: str(action.action_type), without the enum prefix
TypeToken(action_type) ==
    IF action_type.k = "str"
    THEN IF HasDot(action_type.s) THEN SplitLast(action_type.s) ELSE action_type.s
    ELSE action_type.cls

\* "_".join(parts) of _descriptive_action_id, before the uniqueness step
CandidateOf(move) ==
    Join(<<Lower(TypeToken(move.action_type))>> \o ValueParts(move.value))

Candidate == [o \in Oids |-> IF MovePool[o].action_type.k = "raises"
                             THEN "" ELSE CandidateOf(MovePool[o])]

\* f"action_{index}"
IndexId(index) == "action_" \o ToString(index)

\* _descriptive_action_id(action, index), reading self.id_to_action
DescriptiveActionId(d, o, index) ==
    IF MovePool[o].action_type.k = "raises"
    THEN IndexId(index)
    ELSE IF HasKey(d, Candidate[o])
         THEN Candidate[o] \o "_" \o ToString(index)
         ELSE Candidate[o]

\* _generate_action_id(action, index)
GenerateActionId(descriptive, d, o, index) ==
    IF descriptive THEN DescriptiveActionId(d, o, index) ELSE IndexId(index)

\* The loop of set_actions over actions[n..]: i is the 0-based index enumerate gives.
RECURSIVE MapFrom(_, _, _, _)
MapFrom(descriptive, list, n, maps) ==
    IF n > Len(list) THEN maps
    ELSE LET aid == GenerateActionId(descriptive, maps.ids, list[n], n - 1)
         IN  MapFrom(descriptive, list, n + 1,
                     [ids  |-> Store(maps.ids, aid, list[n]),
                      back |-> [o \in DOMAIN maps.back \cup {list[n]} |->
                                   IF o = list[n] THEN aid ELSE maps.back[o]]])

EmptyMaps == [ids |-> <<>>, back |-> [o \in {} |-> ""]]

\* set_actions(actions): both dicts are emptied, then filled
SetActionsMaps(descriptive, list) == MapFrom(descriptive, list, 1, EmptyMaps)

\* set_actions tabulated over the lists the engine can hand over
MapsOf == [descriptive \in BOOLEAN, list \in MoveLists |-> SetActionsMaps(descriptive, list)]

\* get_action(action_id)
GetAction(d, action_id) == Lookup(d, action_id)
\* get_action_id(action)
GetActionId(back, o) == IF o \in DOMAIN back THEN back[o] ELSE None
\* is_valid_action_id(action_id)
IsValidActionId(d, action_id) == HasKey(d, action_id)
\* get_all_action_ids()
GetAllActionIds(d) == [i \in 1..Len(d) |-> d[i][1]]

-----------------------------------------------------------------------------
(* CatanatronMCPServer *)

\* The colors of game.state.color_to_index, and the colors a caller may pass.
GameColors == {"RED", "BLUE"}
CallerColors == {"RED", "WHITE"}

\* Tool inputs.  The arguments are a JSON object (dict) or another JSON value;
\* action_id is absent, null, a string, a number or a list.
Missing    == [k |-> "missing"]
Null       == [k |-> "null"]
StrId(s)   == [k |-> "str", s |-> s]
IntId(n)   == [k |-> "int", i |-> n]
ListId(n)  == [k |-> "list", n |-> n]     \* a list of n elements

DictInput(aid) == [k |-> "dict", action_id |-> aid]
NonDictInput   == [k |-> "nondict", action_id |-> Missing]

\* every id set_actions can generate for the lists of MoveLists
GeneratedIds == UNION {Keys(MapsOf[TRUE, list].ids) : list \in MoveLists}

ActionIdInputs ==
    {Missing, Null, IntId(0), IntId(5), ListId(0), ListId(1)}
        \cup {StrId(s) : s \in GeneratedIds \cup {"", "invalid_action"}}

ToolNames == {"get_game_state", "get_valid_actions", "select_action", "unknown_tool"}

\* The inputs tried with each tool: only select_action reads action_id.
ToolInputs(tool_name) ==
    IF tool_name = "select_action"
    THEN {DictInput(aid) : aid \in ActionIdInputs} \cup {NonDictInput}
    ELSE {DictInput(Missing), NonDictInput}

\* get_state can fail only when get_game_state calls it
GetStateOutcomes(tool_name) == IF tool_name = "get_game_state" THEN BOOLEAN ELSE {FALSE}

\* Python truthiness of tool_input.get("action_id")
Truthy(aid) ==
    CASE aid.k = "str"  -> Len(aid.s) > 0
      [] aid.k = "int"  -> aid.i # 0
      [] aid.k = "list" -> aid.n > 0
      [] OTHER          -> FALSE

\* action_id in self.id_to_action (a list is unhashable: TypeError)
Hashable(aid) == aid.k # "list"
InMapping(d, aid) == aid.k = "str" /\ IsValidActionId(d, aid.s)

\* Results of a tool call: a JSON object, or an exception.
\* "ids" is the list under valid_action_ids when has_ids, "tools" tells whether
\* available_tools is listed.
JsonError(msg, has_ids, ids, tools) ==
    [raised |-> FALSE, error |-> msg, success |-> FALSE, action_id |-> None,
     has_ids |-> has_ids, valid_action_ids |-> ids, available_tools |-> tools,
     body |-> None]
JsonOk(body, aid) ==
    [raised |-> FALSE, error |-> None, success |-> (body = "selected"), action_id |-> aid,
     has_ids |-> FALSE, valid_action_ids |-> <<>>, available_tools |-> FALSE,
     body |-> body]
Raised ==
    [raised |-> TRUE, error |-> None, success |-> FALSE, action_id |-> None,
     has_ids |-> FALSE, valid_action_ids |-> <<>>, available_tools |-> FALSE,
     body |-> None]
NoResult ==
    [raised |-> FALSE, error |-> None, success |-> FALSE, action_id |-> None,
     has_ids |-> FALSE, valid_action_ids |-> <<>>, available_tools |-> FALSE,
     body |-> None]

\* get_all_actions_with_ids(): one entry per item of id_to_action, in dict order
GetAllActionsWithIds(d) == [i \in 1..Len(d) |-> [action_id |-> d[i][1], action |-> d[i][2]]]

\* the object _handle_get_valid_actions returns
ValidActionsBody(d) ==
    [num_actions |-> Len(GetAllActionsWithIds(d)), actions |-> GetAllActionsWithIds(d)]

\* get_selected_action()
GetSelectedActionOf(sel, d) == IF sel # None THEN GetAction(d, sel) ELSE NoMove
GetSelectedAction == GetSelectedActionOf(selected_action_id, id_to_action)

\* _handle_get_game_state(tool_input): get_state or json.dumps may raise inside the try
HandleGetGameState(tool_input, get_state_raises) ==
    IF tool_input.k # "dict" THEN Raised
    ELSE IF get_state_raises THEN JsonError("Failed to get game state", FALSE, <<>>, FALSE)
    ELSE JsonOk("state", None)

\* _handle_get_valid_actions(tool_input)
HandleGetValidActions(d) == JsonOk("actions", None)

\* _handle_select_action with the id recorded before it is validated
HandleSelectActionRecordsFirst(d, sel, tool_input) ==
    IF tool_input.k # "dict" THEN [result |-> Raised, selected |-> sel]
    ELSE LET aid == tool_input.action_id
         IN  IF ~Truthy(aid)
             THEN [result |-> JsonError("action_id is required", FALSE, <<>>, FALSE), selected |-> sel]
             ELSE IF ~Hashable(aid) THEN [result |-> Raised, selected |-> sel]
             ELSE IF ~InMapping(d, aid)
             THEN [result |-> JsonError("Invalid action_id", TRUE, GetAllActionIds(d), FALSE),
                   selected |-> IF aid.k = "str" THEN aid.s ELSE sel]
             ELSE [result |-> JsonOk("selected", aid.s), selected |-> aid.s]

\* _handle_select_action that keeps an earlier selection of the context
HandleSelectActionKeepsFirst(d, sel, tool_input) ==
    IF tool_input.k # "dict" THEN [result |-> Raised, selected |-> sel]
    ELSE LET aid == tool_input.action_id
         IN  IF ~Truthy(aid)
             THEN [result |-> JsonError("action_id is required", FALSE, <<>>, FALSE), selected |-> sel]
             ELSE IF ~Hashable(aid) THEN [result |-> Raised, selected |-> sel]
             ELSE IF ~InMapping(d, aid)
             THEN [result |-> JsonError("Invalid action_id", TRUE, GetAllActionIds(d), FALSE),
                   selected |-> sel]
             ELSE [result |-> JsonOk("selected", aid.s),
                   selected |-> IF sel # None THEN sel ELSE aid.s]

\* _handle_select_action whose error for an unknown id does not list the valid ids
HandleSelectActionNoIds(d, sel, tool_input) ==
    IF tool_input.k # "dict" THEN [result |-> Raised, selected |-> sel]
    ELSE LET aid == tool_input.action_id
         IN  IF ~Truthy(aid)
             THEN [result |-> JsonError("action_id is required", FALSE, <<>>, FALSE), selected |-> sel]
             ELSE IF ~Hashable(aid) THEN [result |-> Raised, selected |-> sel]
             ELSE IF ~InMapping(d, aid)
             THEN [result |-> JsonError("Invalid action_id", FALSE, <<>>, FALSE),
                   selected |-> sel]
             ELSE [result |-> JsonOk("selected", aid.s), selected |-> aid.s]

\* _handle_select_action(tool_input): the result and the new selected_action_id
HandleSelectAction(d, sel, tool_input) ==
    IF tool_input.k # "dict" THEN [result |-> Raised, selected |-> sel]
    ELSE LET aid == tool_input.action_id
         IN  IF ~Truthy(aid)
             THEN [result |-> JsonError("action_id is required", FALSE, <<>>, FALSE), selected |-> sel]
             ELSE IF ~Hashable(aid) THEN [result |-> Raised, selected |-> sel]
             ELSE IF ~InMapping(d, aid)
             THEN [result |-> JsonError("Invalid action_id", TRUE, GetAllActionIds(d), FALSE),
                   selected |-> sel]
             ELSE [result |-> JsonOk("selected", aid.s), selected |-> aid.s]

\* handle_tool_call without the check that a context is set
ToolOutcomeNoContextCheck(wrapper, d, sel, tool_name, tool_input, get_state_raises) ==
    CASE tool_name = "get_game_state" ->
            [result |-> HandleGetGameState(tool_input, get_state_raises), selected |-> sel]
      [] tool_name = "get_valid_actions" ->
            [result |-> HandleGetValidActions(d), selected |-> sel]
      [] tool_name = "select_action" -> HandleSelectAction(d, sel, tool_input)
      [] OTHER ->
            [result |-> JsonError("Unknown tool", FALSE, <<>>, TRUE), selected |-> sel]

\* handle_tool_call whose get_valid_actions forgets the pending selection
ToolOutcomeReadResetsSelection(wrapper, d, sel, tool_name, tool_input, get_state_raises) ==
    IF wrapper = NoWrapper
    THEN [result |-> JsonError("No game context set", FALSE, <<>>, FALSE), selected |-> sel]
    ELSE CASE tool_name = "get_game_state" ->
                [result |-> HandleGetGameState(tool_input, get_state_raises), selected |-> sel]
           [] tool_name = "get_valid_actions" ->
                [result |-> HandleGetValidActions(d), selected |-> None]
           [] tool_name = "select_action" -> HandleSelectAction(d, sel, tool_input)
           [] OTHER ->
                [result |-> JsonError("Unknown tool", FALSE, <<>>, TRUE), selected |-> sel]

\* handle_tool_call(tool_name, tool_input): the result and the new selected_action_id
ToolOutcome(wrapper, d, sel, tool_name, tool_input, get_state_raises) ==
    IF wrapper = NoWrapper
    THEN [result |-> JsonError("No game context set", FALSE, <<>>, FALSE), selected |-> sel]
    ELSE CASE tool_name = "get_game_state" ->
                [result |-> HandleGetGameState(tool_input, get_state_raises), selected |-> sel]
           [] tool_name = "get_valid_actions" ->
                [result |-> HandleGetValidActions(d), selected |-> sel]
           [] tool_name = "select_action" -> HandleSelectAction(d, sel, tool_input)
           [] OTHER ->
                [result |-> JsonError("Unknown tool", FALSE, <<>>, TRUE), selected |-> sel]

\* A call as the caller saw it: the operation, its arguments, whether it raised, and
\* the server's state when it was made (idle: no context; had_selection).
NoCall ==
    [op |-> "none", idle |-> TRUE, had_selection |-> FALSE, name |-> None,
     input |-> NonDictInput, raised |-> FALSE]
Call(op, name, input, raised) ==
    [op |-> op, idle |-> (game_wrapper = NoWrapper),
     had_selection |-> (selected_action_id # None), name |-> name, input |-> input,
     raised |-> raised]

\* set_game_context that does not reset selected_action_id
SetContextKeepsSelection(player_color, list) ==
    IF player_color \notin GameColors
    THEN UNCHANGED <<mapper_vars, server_vars>>
    ELSE LET maps == MapsOf[use_descriptive_ids, list]
         IN  /\ game_wrapper' = [player_color |-> player_color]
             /\ actions' = list
             /\ id_to_action' = maps.ids
             /\ action_to_id' = maps.back
             /\ UNCHANGED <<use_descriptive_ids, selected_action_id>>

\* What set_game_context(game, player_color, playable_actions) does to the server and
\* its mapper; the wrapper's constructor raises KeyError when the game does not know
\* player_color, before anything is assigned.
SetContext(player_color, list) ==
    IF player_color \notin GameColors
    THEN UNCHANGED <<mapper_vars, server_vars>>
    ELSE LET maps == MapsOf[use_descriptive_ids, list]
         IN  /\ game_wrapper' = [player_color |-> player_color]
             /\ actions' = list
             /\ id_to_action' = maps.ids
             /\ action_to_id' = maps.back
             /\ selected_action_id' = None
             /\ UNCHANGED use_descriptive_ids

\* server.set_game_context(game, player_color, playable_actions), as its caller sees it
SetGameContext(player_color, list) ==
    /\ SetContext(player_color, list)
    /\ last_call' = Call("set_game_context", None, NonDictInput, player_color \notin GameColors)
    /\ last_result' = IF player_color \notin GameColors THEN Raised ELSE NoResult
    /\ last_accepted' = IF player_color \notin GameColors THEN last_accepted ELSE None
    /\ kept_stale' = IF player_color \notin GameColors THEN kept_stale ELSE kept_id # None
    /\ UNCHANGED kept_id

\* handle_tool_call that plays the move of an accepted select_action on the game
HandleToolCallExecutesMove(tool_name, tool_input, get_state_raises) ==
    LET out == ToolOutcome(game_wrapper, id_to_action, selected_action_id,
                           tool_name, tool_input, get_state_raises)
    IN  /\ selected_action_id' = out.selected
        /\ last_call' = Call("handle_tool_call", tool_name, tool_input, out.result.raised)
        /\ last_result' = out.result
        /\ last_accepted' = IF out.result.success THEN out.result.action_id ELSE last_accepted
        /\ game' = IF out.result.success
                   THEN [game EXCEPT !.actions = Append(@, Len(@) + 1)]
                   ELSE game
        /\ UNCHANGED <<mapper_vars, game_wrapper, kept_id, kept_stale, state_call,
                       state_result>>

\* server.handle_tool_call(tool_name, tool_input), as its caller sees it
HandleToolCall(tool_name, tool_input, get_state_raises) ==
    LET out == ToolOutcome(game_wrapper, id_to_action, selected_action_id,
                           tool_name, tool_input, get_state_raises)
    IN  /\ selected_action_id' = out.selected
        /\ last_call' = Call("handle_tool_call", tool_name, tool_input, out.result.raised)
        /\ last_result' = out.result
        /\ last_accepted' = IF out.result.success THEN out.result.action_id ELSE last_accepted
        /\ UNCHANGED <<mapper_vars, game_wrapper, kept_id, kept_stale, engine_vars>>

\* What clear_context() does to the server
ClearServer ==
    /\ game_wrapper' = NoWrapper
    /\ selected_action_id' = None
    /\ UNCHANGED mapper_vars

\* server.clear_context(), as its caller sees it
ClearContext ==
    /\ ClearServer
    /\ last_call' = Call("clear_context", None, NonDictInput, FALSE)
    /\ last_result' = NoResult
    /\ last_accepted' = None
    /\ UNCHANGED <<kept_id, kept_stale>>

\* The caller reads get_all_action_ids() (or get_valid_actions) and keeps one id.
KeepId(action_id) ==
    /\ IsValidActionId(id_to_action, action_id)
    /\ kept_id' = action_id
    /\ kept_stale' = FALSE
    /\ UNCHANGED <<mapper_vars, server_vars, last_call, last_result, last_accepted>>

\* no player is used: the server or the mapper is called directly
NoPlayer ==
    /\ pc = "new"
    /\ playable_actions = <<>>
    /\ max_retries = 0
    /\ turn = 0
    /\ attempt = 0
    /\ calls_left = 0
    /\ attempts_made = 0
    /\ returned = NoMove
    /\ used_fallback = FALSE
    /\ responses = 0
    /\ total_input_tokens = 0
    /\ total_output_tokens = 0
    /\ cost = 0
    /\ tokens = 0
    /\ ended_by = None
    /\ last_tool = None

MaxWorkers == 2
Workers == 1..MaxWorkers

\* the statistics of a player that has made no decision
NoStats ==
    /\ total_cost = 0
    /\ total_tokens = 0
    /\ move_count = 0
    /\ recent_moves = <<>>
    /\ reported = <<>>

\* parse_player_spec has not been called
NotParsed == [model_key |-> None, mode |-> "unset"]

NoParse ==
    /\ player_spec = ""
    /\ parsed = NotParsed

\* no entries: an empty dict
NoEntries == [p \in {} |-> 0]

\* a thread that is not inside update_ratings
OutsideElo == [pc |-> "idle", scores |-> <<>>, current |-> NoEntries]

\* EloRating.__init__ without a ratings file, before any update_ratings
NoElo ==
    /\ ratings = NoEntries
    /\ game_counts = NoEntries
    /\ history = <<>>
    /\ elo_call = <<>>
    /\ elo_before = [ratings |-> NoEntries, game_counts |-> NoEntries, history |-> <<>>]
    /\ elo_changes = NoEntries
    /\ elo_games = 0
    /\ elo_thread = [w \in Workers |-> OutsideElo]

MaxRunGames == 3
RunGames == 1..MaxRunGames

\* run_single_game returning None: run_game raised
GameFailed == [ok |-> FALSE, total_cost |-> 0, total_tokens |-> 0]

\* a pool thread that is not inside run_single_game
OutsideRun == [pc |-> "idle", game |-> 0, result |-> GameFailed, completed |-> 0, cost |-> 0,
               tokens |-> 0]

\* _run_tournament_parallel right after "lock = threading.Lock()" and the submits
NoRun ==
    /\ games_completed = 0
    /\ run_cost = 0
    /\ run_tokens = 0
    /\ all_results = <<>>
    /\ lock = 0
    /\ futures = [g \in RunGames |-> [state |-> "queued", result |-> GameFailed]]
    /\ run_thread = [w \in Workers |-> OutsideRun]

\* a message of the conversation
Message(role, calls, tool_call_id) ==
    [role |-> role, tool_calls |-> calls, tool_call_id |-> tool_call_id]

\* query_llm_with_mcp before its first request: the system and the user message
NoConversation ==
    /\ messages = <<Message("system", <<>>, ""), Message("user", <<>>, "")>>
    /\ requests = <<>>
    /\ pending = <<>>
    /\ executed = <<>>
    /\ conv_pc = "request"

\* a game thread that is not inside decide()
OutsideDecide == [pc |-> "idle", playable_actions |-> <<>>, returned |-> NoMove]

NoDecisions == deciding = [w \in Workers |-> OutsideDecide]

NoExtra == NoStats /\ NoParse /\ NoElo /\ NoRun /\ NoConversation /\ NoDecisions

\* _make_request_with_retry is not followed on its own
NoRetry ==
    /\ retry_delay = 1
    /\ waits = <<>>
    /\ request = "none"

-----------------------------------------------------------------------------
(* CatanatronGameWrapper: the view of one player *)

MaxCards == 1

\* game.state.color_to_index, in its order
ColorOrder == <<"RED", "BLUE">>
ColorToIndex(color) == CHOOSE i \in 0..(Len(ColorOrder) - 1) : ColorOrder[i + 1] = color

ResourceKinds == <<"WOOD", "BRICK", "SHEEP", "WHEAT", "ORE">>
DevKinds == <<"KNIGHT", "YEAR_OF_PLENTY", "MONOPOLY", "ROAD_BUILDING", "VICTORY_POINT">>

\* f"P{player_index}_"
Prefix(index) == "P" \o ToString(index) \o "_"
InHand(prefix, kind) == prefix \o kind \o "_IN_HAND"

\* ps.get(key, default)
PsGet(ps, key, default) == IF key \in DOMAIN ps THEN ps[key] ELSE default

\* sum([...])
RECURSIVE Sum(_)
Sum(l) == IF Len(l) = 0 THEN 0 ELSE l[1] + Sum(Tail(l))

\* the player_state keys of one player at the start of a game
StartKeys(index) ==
    LET prefix == Prefix(index)
    IN  [key \in {InHand(prefix, ResourceKinds[i]) : i \in 1..Len(ResourceKinds)}
                 \cup {InHand(prefix, DevKinds[i]) : i \in 1..Len(DevKinds)}
                 \cup {prefix \o "VICTORY_POINTS", prefix \o "ACTUAL_VICTORY_POINTS",
                       prefix \o "PLAYED_KNIGHT", prefix \o "LONGEST_ROAD_LENGTH"}
           |-> 0]
        @@ [key \in {prefix \o "SETTLEMENTS_AVAILABLE"} |-> 5]
        @@ [key \in {prefix \o "CITIES_AVAILABLE"} |-> 4]
        @@ [key \in {prefix \o "ROADS_AVAILABLE"} |-> 15]
        @@ [key \in {prefix \o "HAS_ROAD", prefix \o "HAS_ARMY"} |-> FALSE]

\* a game at its start; has_board and has_actions tell whether game.state has the
\* attributes board and actions
NewGame(has_board, has_actions) ==
    [id |-> "g1",
     player_state |-> StartKeys(0) @@ StartKeys(1),
     has_actions |-> has_actions,
     actions |-> <<>>,
     has_board |-> has_board,
     board |-> [settlements |-> <<<<3, "RED">>>>, cities |-> <<>>,
                roads |-> <<<<7, "BLUE">>>>, robber_tile |-> 10],
     development_deck |-> 2 * MaxCards]

\* _get_dev_cards(prefix, ps)
GetDevCards(prefix, ps) ==
    [knight         |-> PsGet(ps, InHand(prefix, "KNIGHT"), 0),
     year_of_plenty |-> PsGet(ps, InHand(prefix, "YEAR_OF_PLENTY"), 0),
     monopoly       |-> PsGet(ps, InHand(prefix, "MONOPOLY"), 0),
     road_building  |-> PsGet(ps, InHand(prefix, "ROAD_BUILDING"), 0),
     victory_point  |-> PsGet(ps, InHand(prefix, "VICTORY_POINT"), 0),
     total |-> Sum([i \in 1..Len(DevKinds) |-> PsGet(ps, InHand(prefix, DevKinds[i]), 0)])]

\* _get_player_state(player_index)
GetPlayerState(g, player_index) ==
    LET prefix == Prefix(player_index)
        ps == g.player_state
    IN  [resources |->
            [wood  |-> PsGet(ps, InHand(prefix, "WOOD"), 0),
             brick |-> PsGet(ps, InHand(prefix, "BRICK"), 0),
             sheep |-> PsGet(ps, InHand(prefix, "SHEEP"), 0),
             wheat |-> PsGet(ps, InHand(prefix, "WHEAT"), 0),
             ore   |-> PsGet(ps, InHand(prefix, "ORE"), 0)],
         total_resources |->
            Sum([i \in 1..Len(ResourceKinds) |->
                    PsGet(ps, InHand(prefix, ResourceKinds[i]), 0)]),
         victory_points |-> PsGet(ps, prefix \o "ACTUAL_VICTORY_POINTS", 0),
         public_victory_points |-> PsGet(ps, prefix \o "VICTORY_POINTS", 0),
         buildings |->
            [settlements_built |-> 5 - PsGet(ps, prefix \o "SETTLEMENTS_AVAILABLE", 5),
             cities_built |-> 4 - PsGet(ps, prefix \o "CITIES_AVAILABLE", 4),
             roads_built |-> 15 - PsGet(ps, prefix \o "ROADS_AVAILABLE", 15),
             settlements_available |-> PsGet(ps, prefix \o "SETTLEMENTS_AVAILABLE", 5),
             cities_available |-> PsGet(ps, prefix \o "CITIES_AVAILABLE", 4),
             roads_available |-> PsGet(ps, prefix \o "ROADS_AVAILABLE", 15)],
         development_cards |-> GetDevCards(prefix, ps),
         has_longest_road |-> PsGet(ps, prefix \o "HAS_ROAD", FALSE),
         has_largest_army |-> PsGet(ps, prefix \o "HAS_ARMY", FALSE),
         knights_played |-> PsGet(ps, prefix \o "PLAYED_KNIGHT", 0),
         longest_road_length |-> PsGet(ps, prefix \o "LONGEST_ROAD_LENGTH", 0)]

\* one entry of _get_opponents_state that reports the opponent's real victory points
OpponentStateActualPoints(g, color) ==
    LET prefix == Prefix(ColorToIndex(color))
        ps == g.player_state
    IN  [color |-> color,
         victory_points |-> PsGet(ps, prefix \o "ACTUAL_VICTORY_POINTS", 0),
         resource_count |->
            Sum([i \in 1..Len(ResourceKinds) |->
                    PsGet(ps, InHand(prefix, ResourceKinds[i]), 0)]),
         development_card_count |->
            Sum([i \in 1..Len(DevKinds) |-> PsGet(ps, InHand(prefix, DevKinds[i]), 0)]),
         buildings |->
            [settlements |-> 5 - PsGet(ps, prefix \o "SETTLEMENTS_AVAILABLE", 5),
             cities |-> 4 - PsGet(ps, prefix \o "CITIES_AVAILABLE", 4),
             roads |-> 15 - PsGet(ps, prefix \o "ROADS_AVAILABLE", 15)],
         has_longest_road |-> PsGet(ps, prefix \o "HAS_ROAD", FALSE),
         has_largest_army |-> PsGet(ps, prefix \o "HAS_ARMY", FALSE),
         knights_played |-> PsGet(ps, prefix \o "PLAYED_KNIGHT", 0)]

\* one entry of _get_opponents_state
OpponentState(g, color) ==
    LET prefix == Prefix(ColorToIndex(color))
        ps == g.player_state
    IN  [color |-> color,
         victory_points |-> PsGet(ps, prefix \o "VICTORY_POINTS", 0),
         resource_count |->
            Sum([i \in 1..Len(ResourceKinds) |->
                    PsGet(ps, InHand(prefix, ResourceKinds[i]), 0)]),
         development_card_count |->
            Sum([i \in 1..Len(DevKinds) |-> PsGet(ps, InHand(prefix, DevKinds[i]), 0)]),
         buildings |->
            [settlements |-> 5 - PsGet(ps, prefix \o "SETTLEMENTS_AVAILABLE", 5),
             cities |-> 4 - PsGet(ps, prefix \o "CITIES_AVAILABLE", 4),
             roads |-> 15 - PsGet(ps, prefix \o "ROADS_AVAILABLE", 15)],
         has_longest_road |-> PsGet(ps, prefix \o "HAS_ROAD", FALSE),
         has_largest_army |-> PsGet(ps, prefix \o "HAS_ARMY", FALSE),
         knights_played |-> PsGet(ps, prefix \o "PLAYED_KNIGHT", 0)]

\* a loop over color_to_index that does not skip the viewer
RECURSIVE OpponentsFromAll(_, _, _)
OpponentsFromAll(g, player_color, i) ==
    IF i > Len(ColorOrder) THEN <<>>
    ELSE <<OpponentState(g, ColorOrder[i])>> \o OpponentsFromAll(g, player_color, i + 1)

\* _get_opponents_state(): the other colors in the order of color_to_index
RECURSIVE OpponentsFrom(_, _, _)
OpponentsFrom(g, player_color, i) ==
    IF i > Len(ColorOrder) THEN <<>>
    ELSE (IF ColorOrder[i] # player_color THEN <<OpponentState(g, ColorOrder[i])>> ELSE <<>>)
            \o OpponentsFrom(g, player_color, i + 1)
GetOpponentsState(g, player_color) == OpponentsFrom(g, player_color, 1)

\* _get_board_state(): the placements as lists of (id as a string, color)
GetBoardState(g) ==
    [settlements |-> [i \in 1..Len(g.board.settlements) |->
                         [node_id |-> ToString(g.board.settlements[i][1]),
                          color |-> g.board.settlements[i][2]]],
     cities |-> [i \in 1..Len(g.board.cities) |->
                         [node_id |-> ToString(g.board.cities[i][1]),
                          color |-> g.board.cities[i][2]]],
     roads |-> [i \in 1..Len(g.board.roads) |->
                         [edge_id |-> ToString(g.board.roads[i][1]),
                          color |-> g.board.roads[i][2]]],
     robber_tile |-> ToString(g.board.robber_tile)]

\* _get_recent_actions(limit): the last limit actions as strings, [] without actions
GetRecentActions(g, limit) ==
    IF g.has_actions
    THEN LET n == Len(g.actions)
             first == IF n > limit THEN n - limit + 1 ELSE 1
         IN  [i \in 1..(n - first + 1) |-> ToString(g.actions[first + i - 1])]
    ELSE <<>>

\* get_state raises AttributeError: len(self.game.state.actions) without actions,
\* self.game.state.board without board
GetStateRaises(g, include_board, include_history) ==
    \/ ~g.has_actions
    \/ include_board /\ ~g.has_board

\* get_state(include_board, include_history) when it returns
GetState(g, player_color, include_board, include_history) ==
    [game_id |-> g.id,
     turn_number |-> Len(g.actions),
     your_color |-> player_color,
     your_state |-> GetPlayerState(g, ColorToIndex(player_color)),
     opponents |-> GetOpponentsState(g, player_color),
     development_cards_remaining |-> g.development_deck]
    @@ (IF include_board THEN [key \in {"board"} |-> GetBoardState(g)]
        ELSE [key \in {} |-> 0])
    @@ (IF include_history THEN [key \in {"recent_actions"} |-> GetRecentActions(g, 10)]
        ELSE [key \in {} |-> 0])

\* The arguments of a get_game_state tool call: a JSON object whose include_board
\* and include_history are absent, true or false; or another JSON value.
Flags == {"absent", "true", "false"}
StateInput(b, h) ==
    [k |-> "dict", action_id |-> Missing, include_board |-> b, include_history |-> h]
NonDictStateInput ==
    [k |-> "nondict", action_id |-> Missing, include_board |-> "absent",
     include_history |-> "absent"]
StateInputs == {StateInput(b, h) : b, h \in Flags} \cup {NonDictStateInput}

\* a flag that counts as set unless it is false
FlagSetUnlessFalse(flag) == flag # "false"

\* tool_input.get(name, False) as get_state's "if" takes it
FlagSet(flag) == flag = "true"

NoStateCall == [viewer |-> None, input |-> NonDictStateInput]
NoState == [returned |-> FALSE, raised |-> FALSE, error |-> None, state |-> <<>>]

\* the engine's game is not followed
NoEngine ==
    /\ game = NewGame(TRUE, TRUE)
    /\ state_call = NoStateCall
    /\ state_result = NoState

\* game.play() executes a move that gives color one card of a resource kind
EngineGains(color, kind) ==
    LET key == InHand(Prefix(ColorToIndex(color)), kind)
    IN  /\ game.player_state[key] < MaxCards
        /\ game' = [game EXCEPT !.player_state[key] = @ + 1,
                                !.actions = IF game.has_actions
                                            THEN Append(@, Len(@) + 1) ELSE @]
        /\ state_call' = NoStateCall
        /\ state_result' = NoState

\* game.play() executes BUY_DEVELOPMENT_CARD for color; a victory point card
\* counts in ACTUAL_VICTORY_POINTS only
EngineBuysCard(color, kind) ==
    LET prefix == Prefix(ColorToIndex(color))
        key == InHand(prefix, kind)
        hidden == prefix \o "ACTUAL_VICTORY_POINTS"
    IN  /\ game.player_state[key] < MaxCards
        /\ game.development_deck > 0
        /\ game' = [game EXCEPT !.player_state[key] = @ + 1,
                                !.player_state[hidden] =
                                    IF kind = "VICTORY_POINT" THEN @ + 1 ELSE @,
                                !.development_deck = @ - 1,
                                !.actions = IF game.has_actions
                                            THEN Append(@, Len(@) + 1) ELSE @]
        /\ state_call' = NoStateCall
        /\ state_result' = NoState


\* no tournament is running
NoTournament ==
    /\ mcp_server = 0
    /\ servers_created = 0
    /\ games_to_run = 0
    /\ thread_pc = [w \in Workers |-> "idle"]
    /\ players_left = [w \in Workers |-> 0]
    /\ game_servers = [w \in Workers |-> {}]

\* a server, its mapper and its caller right after construction, nothing else running
NoSession ==
    /\ use_descriptive_ids = TRUE
    /\ actions = <<>>
    /\ id_to_action = <<>>
    /\ action_to_id = EmptyMaps.back
    /\ game_wrapper = NoWrapper
    /\ selected_action_id = None
    /\ kept_id = None
    /\ kept_stale = FALSE
    /\ last_call = NoCall
    /\ last_result = NoResult
    /\ last_accepted = None
    /\ NoPlayer
    /\ NoRetry
    /\ NoTournament
    /\ NoEngine

ServerInit ==
    /\ NoSession
    /\ NoExtra

\* game.play() executes a move between two tool calls or two decisions; the
\* server and its mapper are not touched
Play ==
    /\ EngineGains("RED", "WOOD")
    /\ last_call' = Call("play", None, NonDictInput, FALSE)
    /\ last_result' = NoResult
    /\ UNCHANGED <<mapper_vars, server_vars, kept_id, kept_stale, last_accepted>>

ServerNext ==
    \/ \E c \in CallerColors, list \in EngineLists :
          SetGameContext(c, list) /\ UNCHANGED <<player_vars, retry_vars, tournament_vars, engine_vars, extra_vars>>
    \/ \E n \in ToolNames :
          \E input \in ToolInputs(n), r \in GetStateOutcomes(n) :
             HandleToolCall(n, input, r) /\ UNCHANGED <<player_vars, retry_vars, tournament_vars, extra_vars>>
    \/ ClearContext /\ UNCHANGED <<player_vars, retry_vars, tournament_vars, engine_vars, extra_vars>>
    \/ Play /\ UNCHANGED <<player_vars, retry_vars, tournament_vars, extra_vars>>

ServerSpec == ServerInit /\ [][ServerNext]_vars

-----------------------------------------------------------------------------
(* The mapper used on its own *)

MapperInit ==
    /\ use_descriptive_ids \in BOOLEAN
    /\ actions = <<>>
    /\ id_to_action = <<>>
    /\ action_to_id = EmptyMaps.back
    /\ game_wrapper = NoWrapper
    /\ selected_action_id = None
    /\ kept_id = None
    /\ kept_stale = FALSE
    /\ last_call = NoCall
    /\ last_result = NoResult
    /\ last_accepted = None
    /\ NoPlayer
    /\ NoRetry
    /\ NoTournament
    /\ NoEngine
    /\ NoExtra

\* set_actions that fills the two dicts without emptying them first
SetActionsMerging(list) ==
    LET maps == MapFrom(use_descriptive_ids, list, 1,
                        [ids |-> id_to_action, back |-> action_to_id])
    IN  /\ actions' = list
        /\ id_to_action' = maps.ids
        /\ action_to_id' = maps.back
        /\ kept_stale' = (kept_id # None)
        /\ last_call' = Call("set_actions", None, NonDictInput, FALSE)
        /\ UNCHANGED <<use_descriptive_ids, server_vars, kept_id, last_result, last_accepted>>

\* set_actions that empties action_to_id but not id_to_action
SetActionsKeepsIds(list) ==
    LET maps == MapFrom(use_descriptive_ids, list, 1,
                        [ids |-> id_to_action, back |-> EmptyMaps.back])
    IN  /\ actions' = list
        /\ id_to_action' = maps.ids
        /\ action_to_id' = maps.back
        /\ kept_stale' = (kept_id # None)
        /\ last_call' = Call("set_actions", None, NonDictInput, FALSE)
        /\ UNCHANGED <<use_descriptive_ids, server_vars, kept_id, last_result, last_accepted>>

\* mapper.set_actions(list)
SetActions(list) ==
    LET maps == MapsOf[use_descriptive_ids, list]
    IN  /\ actions' = list
        /\ id_to_action' = maps.ids
        /\ action_to_id' = maps.back
        /\ kept_stale' = (kept_id # None)
        /\ last_call' = Call("set_actions", None, NonDictInput, FALSE)
        /\ UNCHANGED <<use_descriptive_ids, server_vars, kept_id, last_result, last_accepted>>

MapperNext ==
    \/ \E list \in MoveLists : SetActions(list) /\ UNCHANGED <<player_vars, retry_vars, tournament_vars, engine_vars, extra_vars>>
    \/ \E action_id \in Keys(id_to_action) : KeepId(action_id) /\ UNCHANGED <<player_vars, retry_vars, tournament_vars, engine_vars, extra_vars>>

MapperSpec == MapperInit /\ [][MapperNext]_vars

-----------------------------------------------------------------------------
(* BaseMCPPlayer.decide with OpenRouterToolsPlayer.query_llm_with_mcp *)

MaxTurns == 10
MaxRetries == 2
MaxCalls == 2

\* decide() is called with at least one playable action; the lists tried with a
\* player are those of the BUILD_ROAD edge moves (moves 1 to 3, two of them twins)
PlayerLists ==
    {l \in EngineLists : Len(l) > 0 /\ \A m \in Range(l) : MovePool[m].value.k = "tuple"}

\* what one transport attempt gives: an exception, a response that cannot be read
\* (an exception inside the try of query_llm_with_mcp), or a response with n tool calls
TransportOutcomes == {"fail", "malformed"} \cup {ToString(n) : n \in 0..MaxCalls}
NumCalls(outcome) == CHOOSE n \in 0..MaxCalls : ToString(n) = outcome

\* the usage of one response
UsageValues == {[prompt_tokens |-> 2, completion_tokens |-> 1]}

\* model_config.get("input_cost", 0.001) and get("output_cost", 0.002), in thousandths
InputCostPerK == 1
OutputCostPerK == 2

\* _calculate_cost(input_tokens, output_tokens), in millionths
CalculateCost(input_tokens, output_tokens) ==
    input_tokens * InputCostPerK + output_tokens * OutputCostPerK

\* (final_response_text, cost, total_input_tokens + total_output_tokens)
QueryReturnsTotals(input_tokens, output_tokens) ==
    /\ cost' = CalculateCost(input_tokens, output_tokens)
    /\ tokens' = input_tokens + output_tokens

\* ("API Error", 0.0, 0) and (f"Error: {str(e)}", 0.0, 0)
QueryReturnsZero ==
    /\ cost' = 0
    /\ tokens' = 0

\* why query_llm_with_mcp returned, or why decide() skipped its normal path
EndedBy ==
    {"accepted", "rejected", "select_raised", "tool_raised", "no_tool_calls", "budget",
     "api_error", "bad_response", "query_raised", "context_error"}

\* _fallback_action picking the move from the mapper's list
FallbackActionFromMapper(list) == Range(actions)

\* _fallback_action(playable_actions): random.choice
FallbackAction(list) == Range(list)

\* "for attempt in range(self.max_retries)" running one attempt too many
RetriesExhaustedOffByOne(a, retries) == a > retries

\* "for attempt in range(self.max_retries)" stopping one attempt short
RetriesExhaustedOneShort(a, retries) == a >= retries - 1

\* "for attempt in range(self.max_retries)" has run out
RetriesExhausted(a, retries) == a >= retries

\* a loop that goes on to another request after a response without tool calls
AfterResponseNoBreak(n) == IF n = 0 THEN "request" ELSE "tools"

\* "if tool_calls: ... elif finish_reason == "stop" or not tool_calls: break":
\* where the loop goes after a response with n tool calls
AfterResponse(n) == IF n = 0 THEN "finish" ELSE "tools"

PlayerInit ==
    /\ use_descriptive_ids = TRUE
    /\ actions = <<>>
    /\ id_to_action = <<>>
    /\ action_to_id = EmptyMaps.back
    /\ game_wrapper = NoWrapper
    /\ selected_action_id = None
    /\ kept_id = None
    /\ kept_stale = FALSE
    /\ last_call = NoCall
    /\ last_result = NoResult
    /\ last_accepted = None
    /\ pc = "new"
    /\ playable_actions = <<>>
    /\ max_retries \in 0..MaxRetries
    /\ turn = 0
    /\ attempt = 0
    /\ calls_left = 0
    /\ attempts_made = 0
    /\ returned = NoMove
    /\ used_fallback = FALSE
    /\ responses = 0
    /\ total_input_tokens = 0
    /\ total_output_tokens = 0
    /\ cost = 0
    /\ tokens = 0
    /\ ended_by = None
    /\ last_tool = None
    /\ NoRetry
    /\ NoTournament
    /\ NoEngine
    /\ NoExtra

\* decide(game, playable_actions) up to the call of query_llm_with_mcp; when
\* set_game_context raises, the except branch returns the fallback move.
Decide(player_color, list) ==
    /\ pc \in {"new", "returned"}
    /\ SetContext(player_color, list)
    /\ playable_actions' = list
    /\ turn' = 0
    /\ attempt' = 0
    /\ calls_left' = 0
    /\ attempts_made' = 0
    /\ responses' = 0
    /\ total_input_tokens' = 0
    /\ total_output_tokens' = 0
    /\ cost' = 0
    /\ tokens' = 0
    /\ last_tool' = None
    /\ IF player_color \notin GameColors
       THEN /\ pc' = "returned"
            /\ returned' \in FallbackAction(list)
            /\ used_fallback' = TRUE
            /\ ended_by' = "context_error"
       ELSE /\ pc' = "request"
            /\ returned' = NoMove
            /\ used_fallback' = FALSE
            /\ ended_by' = None
    /\ UNCHANGED <<caller_vars, max_retries>>

\* one pass of the loop of _make_request_with_retry: http_client.post, and for a
\* response the reading of its usage and of its tool calls
TransportAttempt(outcome, usage) ==
    /\ pc = "request"
    /\ ~RetriesExhausted(attempt, max_retries)
    /\ attempts_made' = attempts_made + 1
    /\ CASE outcome = "fail" ->
              /\ attempt' = attempt + 1
              /\ UNCHANGED <<pc, calls_left, responses, total_input_tokens,
                             total_output_tokens, cost, tokens, ended_by>>
         [] outcome = "malformed" ->
              /\ pc' = "finish"
              /\ responses' = responses + 1
              /\ total_input_tokens' = total_input_tokens + usage.prompt_tokens
              /\ total_output_tokens' = total_output_tokens + usage.completion_tokens
              /\ QueryReturnsZero
              /\ ended_by' = "bad_response"
              /\ UNCHANGED <<attempt, calls_left>>
         [] OTHER ->
              /\ pc' = AfterResponse(NumCalls(outcome))
              /\ calls_left' = NumCalls(outcome)
              /\ responses' = responses + 1
              /\ total_input_tokens' = total_input_tokens + usage.prompt_tokens
              /\ total_output_tokens' = total_output_tokens + usage.completion_tokens
              /\ IF pc' = "finish"
                 THEN /\ QueryReturnsTotals(total_input_tokens', total_output_tokens')
                      /\ ended_by' = "no_tool_calls"
                 ELSE UNCHANGED <<cost, tokens, ended_by>>
              /\ UNCHANGED attempt
    /\ UNCHANGED <<mapper_vars, server_vars, caller_vars, playable_actions, max_retries,
                   turn, returned, used_fallback, last_tool>>

\* _make_request_with_retry returns None; query_llm_with_mcp returns ("API Error", 0.0, 0)
AllRetriesFailed ==
    /\ pc = "request"
    /\ RetriesExhausted(attempt, max_retries)
    /\ pc' = "finish"
    /\ QueryReturnsZero
    /\ ended_by' = "api_error"
    /\ UNCHANGED <<mapper_vars, server_vars, caller_vars, playable_actions, max_retries,
                   turn, attempt, calls_left, attempts_made, returned, used_fallback,
                   responses, total_input_tokens, total_output_tokens, last_tool>>

\* a loop that also stops at a tool result that is an error object
EndsNegotiationOnError(tool_name, result) ==
    tool_name = "select_action" \/ result.error # None

\* if tool_name == "select_action": return
EndsNegotiation(tool_name, result) == tool_name = "select_action"

\* one pass of "for tool_call in tool_calls": handle_tool_call, then the test for
\* select_action; after the last call of a response the next turn starts
ExecToolCall(tool_name, tool_input, get_state_raises) ==
    LET out == ToolOutcome(game_wrapper, id_to_action, selected_action_id,
                           tool_name, tool_input, get_state_raises)
    IN  /\ pc = "tools"
        /\ calls_left > 0
        /\ selected_action_id' = out.selected
        /\ calls_left' = calls_left - 1
        /\ IF out.result.raised
           THEN /\ pc' = "finish"
                /\ QueryReturnsZero
                /\ ended_by' = IF tool_name = "select_action"
                               THEN "select_raised" ELSE "tool_raised"
                /\ UNCHANGED <<turn, attempt>>
           ELSE IF EndsNegotiation(tool_name, out.result)
           THEN /\ pc' = "finish"
                /\ QueryReturnsTotals(total_input_tokens, total_output_tokens)
                /\ ended_by' = IF out.result.success THEN "accepted" ELSE "rejected"
                /\ UNCHANGED <<turn, attempt>>
           ELSE IF calls_left > 1
           THEN UNCHANGED <<pc, turn, attempt, cost, tokens, ended_by>>
           ELSE IF turn + 1 < MaxTurns
           THEN /\ pc' = "request" /\ turn' = turn + 1 /\ attempt' = 0
                /\ UNCHANGED <<cost, tokens, ended_by>>
           ELSE /\ pc' = "finish"
                /\ QueryReturnsTotals(total_input_tokens, total_output_tokens)
                /\ ended_by' = "budget"
                /\ UNCHANGED <<turn, attempt>>
        /\ last_tool' = IF pc' = "request" THEN None ELSE tool_name
        /\ UNCHANGED <<mapper_vars, game_wrapper, caller_vars, playable_actions,
                       max_retries, attempts_made, returned, used_fallback,
                       responses, total_input_tokens, total_output_tokens>>

\* the local variables of query_llm_with_mcp do not outlive the call
QueryLocalsGone ==
    /\ turn' = 0
    /\ attempt' = 0
    /\ calls_left' = 0
    /\ attempts_made' = 0
    /\ responses' = 0
    /\ total_input_tokens' = 0
    /\ total_output_tokens' = 0
    /\ last_tool' = None

\* query_llm_with_mcp of another subclass raises: the except branch of decide
\* returns the fallback move and does not call clear_context
QueryRaises ==
    /\ pc \in {"request", "tools"}
    /\ pc' = "returned"
    /\ returned' \in FallbackAction(playable_actions)
    /\ used_fallback' = TRUE
    /\ QueryReturnsZero
    /\ ended_by' = "query_raised"
    /\ QueryLocalsGone
    /\ UNCHANGED <<mapper_vars, server_vars, caller_vars, playable_actions, max_retries>>

\* decide() after query_llm_with_mcp has returned: the totals are updated with the
\* returned cost and tokens, then get_selected_action, the fallback, log_move (which
\* may raise: the except branch), clear_context, return
DecideFinish(log_raises) ==
    /\ pc = "finish"
    /\ pc' = "returned"
    /\ IF log_raises
       THEN /\ returned' \in FallbackAction(playable_actions)
            /\ used_fallback' = TRUE
            /\ UNCHANGED <<mapper_vars, server_vars>>
       ELSE /\ IF GetSelectedAction = NoMove
               THEN returned' \in FallbackAction(playable_actions)
               ELSE returned' = GetSelectedAction
            /\ used_fallback' = (GetSelectedAction = NoMove)
            /\ ClearServer
    /\ QueryLocalsGone
    /\ UNCHANGED <<caller_vars, playable_actions, max_retries, cost, tokens, ended_by>>

\* final_response_text as query_llm_with_mcp returns it, for a message without content
ResponseText(e) ==
    CASE e \in {"accepted", "rejected"} -> "Action selected"
      [] e = "no_tool_calls"             -> "No response"
      [] e = "budget"                    -> ""
      [] e = "api_error"                 -> "API Error"
      [] OTHER                           -> "Error"

\* the move_data decide() hands to logger.log_move
MoveData ==
    [action |-> returned, response |-> ResponseText(ended_by), cost |-> cost,
     tokens |-> tokens, mode |-> "mcp"]

QueryStep ==
    \/ \E outcome \in TransportOutcomes, usage \in UsageValues :
          TransportAttempt(outcome, usage)
    \/ AllRetriesFailed
    \/ \E n \in ToolNames :
          \E input \in ToolInputs(n), r \in GetStateOutcomes(n) : ExecToolCall(n, input, r)

Init == PlayerInit

Next ==
    \/ \E c \in CallerColors, list \in PlayerLists : Decide(c, list) /\ UNCHANGED <<retry_vars, tournament_vars, engine_vars, extra_vars>>
    \/ QueryStep /\ UNCHANGED <<retry_vars, tournament_vars, engine_vars, extra_vars>>
    \/ QueryRaises /\ UNCHANGED <<retry_vars, tournament_vars, engine_vars, extra_vars>>
    \/ \E log_raises \in BOOLEAN : DecideFinish(log_raises) /\ UNCHANGED <<retry_vars, tournament_vars, engine_vars, extra_vars>>

Spec == Init /\ [][Next]_vars

\* decide() is sequential code and every transport attempt ends (the HTTP client has a
\* timeout): a step of a running decide() is eventually taken.
FairSpec ==
    Spec /\ WF_vars(/\ QueryStep \/ \E log_raises \in BOOLEAN : DecideFinish(log_raises)
                    /\ UNCHANGED <<retry_vars, tournament_vars, engine_vars, extra_vars>>)

-----------------------------------------------------------------------------
(* OpenRouterToolsPlayer._make_request_with_retry followed attempt by attempt *)

RetryCeiling == 5
MaxDelay == 3

\* a sleep that doubles with every attempt
SleepTimeDoubling(a) == retry_delay * 2^a

\* sleep_time = self.retry_delay * (attempt + 1)
SleepTime(a) == retry_delay * (a + 1)

RetryInit ==
    /\ use_descriptive_ids = TRUE
    /\ actions = <<>>
    /\ id_to_action = <<>>
    /\ action_to_id = EmptyMaps.back
    /\ game_wrapper = NoWrapper
    /\ selected_action_id = None
    /\ kept_id = None
    /\ kept_stale = FALSE
    /\ last_call = NoCall
    /\ last_result = NoResult
    /\ last_accepted = None
    /\ pc = "new"
    /\ playable_actions = <<>>
    /\ max_retries \in 0..RetryCeiling
    /\ turn = 0
    /\ attempt = 0
    /\ calls_left = 0
    /\ attempts_made = 0
    /\ returned = NoMove
    /\ used_fallback = FALSE
    /\ responses = 0
    /\ total_input_tokens = 0
    /\ total_output_tokens = 0
    /\ cost = 0
    /\ tokens = 0
    /\ ended_by = None
    /\ last_tool = None
    /\ retry_delay \in 1..MaxDelay
    /\ waits = <<>>
    /\ request = "none"
    /\ NoTournament
    /\ NoEngine
    /\ NoExtra

\* a call of _make_request_with_retry: the for loop starts at attempt 0
MakeRequest ==
    /\ request # "running"
    /\ request' = "running"
    /\ attempt' = 0
    /\ attempts_made' = 0
    /\ waits' = <<>>
    /\ UNCHANGED <<mapper_vars, server_vars, caller_vars, retry_delay, pc, playable_actions,
                   max_retries, turn, calls_left, returned, used_fallback, responses,
                   total_input_tokens, total_output_tokens, cost, tokens, ended_by,
                   last_tool>>

\* one pass of the for loop: the post returns a response, or it raises and the
\* loop sleeps unless this was the last attempt
RequestAttempt(raises) ==
    /\ request = "running"
    /\ ~RetriesExhausted(attempt, max_retries)
    /\ attempts_made' = attempts_made + 1
    /\ IF raises
       THEN /\ waits' = IF attempt < max_retries - 1
                        THEN Append(waits, SleepTime(attempt))
                        ELSE waits
            /\ attempt' = attempt + 1
            /\ request' = "running"
       ELSE /\ request' = "returned"
            /\ UNCHANGED <<waits, attempt>>
    /\ UNCHANGED <<mapper_vars, server_vars, caller_vars, retry_delay, pc, playable_actions,
                   max_retries, turn, calls_left, returned, used_fallback, responses,
                   total_input_tokens, total_output_tokens, cost, tokens, ended_by,
                   last_tool>>

\* the for loop is over: "All attempts failed", return None
RequestGivesUp ==
    /\ request = "running"
    /\ RetriesExhausted(attempt, max_retries)
    /\ request' = "failed"
    /\ UNCHANGED <<mapper_vars, server_vars, caller_vars, retry_delay, waits, pc,
                   playable_actions, max_retries, turn, attempt, calls_left, attempts_made,
                   returned, used_fallback, responses, total_input_tokens,
                   total_output_tokens, cost, tokens, ended_by, last_tool>>

RetryNext ==
    \/ MakeRequest /\ UNCHANGED <<tournament_vars, engine_vars, extra_vars>>
    \/ \E raises \in BOOLEAN : RequestAttempt(raises) /\ UNCHANGED <<tournament_vars, engine_vars, extra_vars>>
    \/ RequestGivesUp /\ UNCHANGED <<tournament_vars, engine_vars, extra_vars>>

RetrySpec == RetryInit /\ [][RetryNext]_vars

-----------------------------------------------------------------------------
(* get_game_state on a game that the engine keeps playing *)

\* handle_tool_call("get_game_state", tool_input) of a server whose context is the
\* game and the viewer player_color
GetGameState(player_color, tool_input) ==
    LET include_board == FlagSet(tool_input.include_board)
        include_history == FlagSet(tool_input.include_history)
        out == HandleGetGameState(tool_input,
                   tool_input.k = "dict"
                       /\ GetStateRaises(game, include_board, include_history))
    IN  /\ state_call' = [viewer |-> player_color, input |-> tool_input]
        /\ state_result' =
              [returned |-> ~out.raised,
               raised |-> out.raised,
               error |-> out.error,
               state |-> IF out.raised \/ out.error # None THEN <<>>
                         ELSE GetState(game, player_color, include_board, include_history)]
        /\ UNCHANGED game

WrapperInit ==
    /\ use_descriptive_ids = TRUE
    /\ actions = <<>>
    /\ id_to_action = <<>>
    /\ action_to_id = EmptyMaps.back
    /\ game_wrapper = NoWrapper
    /\ selected_action_id = None
    /\ kept_id = None
    /\ kept_stale = FALSE
    /\ last_call = NoCall
    /\ last_result = NoResult
    /\ last_accepted = None
    /\ NoPlayer
    /\ NoRetry
    /\ NoTournament
    /\ game \in {NewGame(has_board, has_actions) : has_board, has_actions \in BOOLEAN}
    /\ state_call = NoStateCall
    /\ state_result = NoState
    /\ NoExtra

idle_in_wrapper ==
    <<mapper_vars, server_vars, caller_vars, player_vars, retry_vars, tournament_vars,
      extra_vars>>

WrapperNext ==
    \/ \E kind \in {"WOOD", "BRICK"} : EngineGains("BLUE", kind) /\ UNCHANGED idle_in_wrapper
    \/ EngineGains("RED", "WOOD") /\ UNCHANGED idle_in_wrapper
    \/ \E kind \in {"KNIGHT", "VICTORY_POINT"} :
          EngineBuysCard("BLUE", kind) /\ UNCHANGED idle_in_wrapper
    \/ \E c \in GameColors, input \in StateInputs :
          GetGameState(c, input) /\ UNCHANGED idle_in_wrapper

WrapperSpec == WrapperInit /\ [][WrapperNext]_vars

-----------------------------------------------------------------------------
(* CatanGameRunner._run_tournament_parallel: the threads of the pool run run_game *)

NumGames == 3
MaxMcpPlayers == 2

TournamentInit ==
    /\ use_descriptive_ids = TRUE
    /\ actions = <<>>
    /\ id_to_action = <<>>
    /\ action_to_id = EmptyMaps.back
    /\ game_wrapper = NoWrapper
    /\ selected_action_id = None
    /\ kept_id = None
    /\ kept_stale = FALSE
    /\ last_call = NoCall
    /\ last_result = NoResult
    /\ last_accepted = None
    /\ NoPlayer
    /\ NoRetry
    /\ mcp_server = 0
    /\ servers_created = 0
    /\ games_to_run = NumGames
    /\ thread_pc = [w \in Workers |-> "idle"]
    /\ players_left = [w \in Workers |-> 0]
    /\ game_servers = [w \in Workers |-> {}]
    /\ NoEngine
    /\ NoExtra

\* a free thread of the pool takes the next game: run_single_game calls run_game
\* with a matchup that has n MCP players
RunGame(w, n) ==
    /\ thread_pc[w] = "idle"
    /\ games_to_run > 0
    /\ games_to_run' = games_to_run - 1
    /\ thread_pc' = [thread_pc EXCEPT ![w] = "create_players"]
    /\ players_left' = [players_left EXCEPT ![w] = n]
    /\ game_servers' = [game_servers EXCEPT ![w] = {}]
    /\ UNCHANGED <<mcp_server, servers_created>>

\* _create_mcp_player reads self.mcp_server: "if self._mcp_server is None"
McpServerCheck(w) ==
    /\ thread_pc[w] = "create_players"
    /\ players_left[w] > 0
    /\ thread_pc' = [thread_pc EXCEPT ![w] = IF mcp_server = 0 THEN "construct" ELSE "return"]
    /\ UNCHANGED <<mcp_server, servers_created, games_to_run, players_left, game_servers>>

\* self._mcp_server = CatanatronMCPServer("catan_arena")
McpServerConstruct(w) ==
    /\ thread_pc[w] = "construct"
    /\ servers_created' = servers_created + 1
    /\ mcp_server' = servers_created + 1
    /\ thread_pc' = [thread_pc EXCEPT ![w] = "return"]
    /\ UNCHANGED <<games_to_run, players_left, game_servers>>

\* "return self._mcp_server": the player is built with mcp_server=self.mcp_server
McpServerReturn(w) ==
    /\ thread_pc[w] = "return"
    /\ game_servers' = [game_servers EXCEPT ![w] = @ \cup {mcp_server}]
    /\ players_left' = [players_left EXCEPT ![w] = @ - 1]
    /\ thread_pc' = [thread_pc EXCEPT ![w] = "create_players"]
    /\ UNCHANGED <<mcp_server, servers_created, games_to_run>>

\* every player is created: Game(players), game.play()
PlayGame(w) ==
    /\ thread_pc[w] = "create_players"
    /\ players_left[w] = 0
    /\ thread_pc' = [thread_pc EXCEPT ![w] = "playing"]
    /\ UNCHANGED <<mcp_server, servers_created, games_to_run, players_left, game_servers>>

\* game.play() is over and run_game returns its result
GameOver(w) ==
    /\ thread_pc[w] = "playing"
    /\ thread_pc' = [thread_pc EXCEPT ![w] = "idle"]
    /\ game_servers' = [game_servers EXCEPT ![w] = {}]
    /\ UNCHANGED <<mcp_server, servers_created, games_to_run, players_left>>

idle_in_tournament ==
    <<mapper_vars, server_vars, caller_vars, player_vars, retry_vars, engine_vars, extra_vars>>

TournamentNext ==
    \/ \E w \in Workers, n \in 0..MaxMcpPlayers : RunGame(w, n) /\ UNCHANGED idle_in_tournament
    \/ \E w \in Workers : McpServerCheck(w) /\ UNCHANGED idle_in_tournament
    \/ \E w \in Workers : McpServerConstruct(w) /\ UNCHANGED idle_in_tournament
    \/ \E w \in Workers : McpServerReturn(w) /\ UNCHANGED idle_in_tournament
    \/ \E w \in Workers : PlayGame(w) /\ UNCHANGED idle_in_tournament
    \/ \E w \in Workers : GameOver(w) /\ UNCHANGED idle_in_tournament

TournamentSpec == TournamentInit /\ [][TournamentNext]_vars

-----------------------------------------------------------------------------
(* Properties of get_state *)

\* a get_game_state call that returned a state
ReturnedState ==
    /\ state_call.viewer # None
    /\ state_result.returned
    /\ state_result.error = None

\* the colors other than player_color
Opponents(player_color) == {ColorOrder[i] : i \in 1..Len(ColorOrder)} \ {player_color}

\* the games that differ from g only in what color holds in private: the split of
\* its resource cards between wood and brick, the split of its development cards
\* between knight and victory point (both totals as in g), and its
\* ACTUAL_VICTORY_POINTS
HiddenVariants(g, color) ==
    LET prefix == Prefix(ColorToIndex(color))
        ps == g.player_state
        wood == InHand(prefix, "WOOD")
        brick == InHand(prefix, "BRICK")
        knight == InHand(prefix, "KNIGHT")
        point == InHand(prefix, "VICTORY_POINT")
        hidden == prefix \o "ACTUAL_VICTORY_POINTS"
    IN  {[g EXCEPT !.player_state[wood] = w,
                   !.player_state[brick] = ps[wood] + ps[brick] - w,
                   !.player_state[knight] = k,
                   !.player_state[point] = ps[knight] + ps[point] - k,
                   !.player_state[hidden] = v] :
            w \in 0..(ps[wood] + ps[brick]),
            k \in 0..(ps[knight] + ps[point]),
            v \in 0..(2 * MaxCards)}

\* C22: get_state of a viewer depends on an opponent's private holdings only through
\* public aggregates: on games that differ only in the per-kind split of an
\* opponent's resource hand or development cards (totals equal) or in its
\* ACTUAL_VICTORY_POINTS, get_state with include_history false returns the same
\* result, and the viewer's own resources and cards are reported per kind.
C22_OpponentsOnlyThroughAggregates ==
    (ReturnedState /\ ~FlagSet(state_call.input.include_history)) =>
       LET viewer == state_call.viewer
           include_board == FlagSet(state_call.input.include_board)
           mine == state_result.state.your_state
           prefix == Prefix(ColorToIndex(viewer))
       IN  /\ \A color \in Opponents(viewer) :
                 \A other \in HiddenVariants(game, color) :
                    /\ ~GetStateRaises(other, include_board, FALSE)
                    /\ GetState(other, viewer, include_board, FALSE) = state_result.state
           /\ mine.resources.wood = game.player_state[InHand(prefix, "WOOD")]
           /\ mine.resources.brick = game.player_state[InHand(prefix, "BRICK")]
           /\ mine.development_cards.knight = game.player_state[InHand(prefix, "KNIGHT")]
           /\ mine.development_cards.victory_point
                 = game.player_state[InHand(prefix, "VICTORY_POINT")]
           /\ mine.victory_points = game.player_state[prefix \o "ACTUAL_VICTORY_POINTS"]

\* RED got its view while BLUE held a resource card, a victory point card that only
\* ACTUAL_VICTORY_POINTS counts, and RED held a card of its own
C22_Witness ==
    /\ state_call.viewer = "RED"
    /\ state_result.returned /\ state_result.error = None
    /\ ~FlagSet(state_call.input.include_history)
    /\ state_result.state.opponents[1].resource_count > 0
    /\ state_result.state.opponents[1].development_card_count > 0
    /\ game.player_state["P1_ACTUAL_VICTORY_POINTS"] > game.player_state["P1_VICTORY_POINTS"]
    /\ state_result.state.your_state.resources.wood > 0
    /\ Cardinality(HiddenVariants(game, "BLUE")) > 1

\* C25: the optional sections are opt-in per call: the result has the key board
\* exactly when include_board is true and the key recent_actions exactly when
\* include_history is true; a call without arguments returns neither.
C25_OptionalSectionsAreOptIn ==
    ReturnedState =>
        /\ ("board" \in DOMAIN state_result.state)
              = (state_call.input.include_board = "true")
        /\ ("recent_actions" \in DOMAIN state_result.state)
              = (state_call.input.include_history = "true")
        /\ state_call.input = StateInput("absent", "absent") =>
              DOMAIN state_result.state =
                 {"game_id", "turn_number", "your_color", "your_state", "opponents",
                  "development_cards_remaining"}
        /\ state_result.state =
              GetState(game, state_call.viewer, state_call.input.include_board = "true",
                       state_call.input.include_history = "true")

\* a call asked for the board and not for the history, after the engine had played
C25_Witness ==
    /\ ReturnedState
    /\ state_call.input = StateInput("true", "false")
    /\ "board" \in DOMAIN state_result.state
    /\ "recent_actions" \notin DOMAIN state_result.state
    /\ state_result.state.turn_number > 0

\* C26: when an optional section is requested and its data source is missing on
\* the game (no board, or no action history), get_game_state still succeeds: it
\* returns the rest of the view with that key omitted, not an error object and
\* not an exception.
C26_MissingSourceOmitsSection ==
    (/\ state_call.viewer # None
     /\ state_call.input.k = "dict"
     /\ \/ FlagSet(state_call.input.include_board) /\ ~game.has_board
        \/ FlagSet(state_call.input.include_history) /\ ~game.has_actions)
    => /\ ReturnedState
       /\ ~game.has_board => "board" \notin DOMAIN state_result.state
       /\ ~game.has_actions => "recent_actions" \notin DOMAIN state_result.state
       /\ "your_state" \in DOMAIN state_result.state

-----------------------------------------------------------------------------
(* Properties of the tournament *)

\* C21: in a parallel tournament each concurrently running game has its own
\* CatanatronMCPServer (and so its own ActionMapper): no server instance is held
\* by the players of two games that run at the same time.
C21_ConcurrentGamesOwnTheirServer ==
    \A w1, w2 \in Workers :
       (w1 # w2 /\ thread_pc[w1] # "idle" /\ thread_pc[w2] # "idle") =>
           game_servers[w1] \cap game_servers[w2] = {}

-----------------------------------------------------------------------------
(* Properties of the retry loop *)

\* C29 as stated: retries use exponential backoff: the first wait is retry_delay,
\* each further wait is the previous one multiplied by one constant factor greater
\* than one, and no wait follows the last failed attempt.
C29_ExponentialBackoff ==
    /\ Len(waits) >= 1 => waits[1] = retry_delay
    /\ \A i \in 2..Len(waits) :
          /\ waits[i] > waits[i - 1]
          /\ waits[i] * waits[1] = waits[i - 1] * waits[2]
    /\ request = "failed" => Len(waits) = Max({0, max_retries - 1})

\* C29 amended: the backoff is linear: the wait after the k-th failed attempt is
\* k times retry_delay, there is one wait after every failed attempt but the
\* last possible one, and so none after the failure that ends the request.
C29_LinearBackoff ==
    /\ \A i \in 1..Len(waits) : waits[i] = i * retry_delay
    /\ Len(waits) <= Max({0, max_retries - 1})
    /\ request = "running" => Len(waits) = Min({attempt, Max({0, max_retries - 1})})
    /\ request = "returned" => Len(waits) = attempt /\ attempts_made = attempt + 1
    /\ request = "failed" =>
          /\ attempts_made = max_retries
          /\ Len(waits) = Max({0, max_retries - 1})

\* a request of four or more attempts failed every time: three waits were made
C29_Witness ==
    /\ request = "failed"
    /\ max_retries >= 4
    /\ Len(waits) >= 3
    /\ retry_delay > 1

-----------------------------------------------------------------------------
(* Properties of the mapper *)

NoDuplicateDiscriminators(l) ==
    \A i, j \in 1..Len(l) : i # j => Discriminator(l[i]) # Discriminator(l[j])

\* C3: for a list of N moves with no duplicate (action type, value) discriminators,
\* set_actions produces exactly N distinct ids, and
\* get_action(get_action_id(m)) is m for every move m of the list.
C3_BijectiveWithoutDuplicates ==
    NoDuplicateDiscriminators(actions) =>
        /\ Cardinality(Keys(id_to_action)) = Len(actions)
        /\ \A m \in Range(actions) :
              GetAction(id_to_action, GetActionId(action_to_id, m)) = m

\* C5 as stated: after a later set_actions, an id read before it is invalid:
\* get_action returns None and is_valid_action_id returns False.
C5_StaleIdNeverResolves ==
    (kept_id # None /\ kept_stale) =>
        /\ ~IsValidActionId(id_to_action, kept_id)
        /\ GetAction(id_to_action, kept_id) = NoMove

\* C5 amended: after a later set_actions, an id read before it is invalid unless the
\* later call generated the same id; it then resolves to a move of the latest list.
\* No stale id resolves to a move that is not in the latest list.
C5_StaleIdResolvesOnlyToCurrentMoves ==
    (kept_id # None /\ kept_stale) =>
        IF IsValidActionId(id_to_action, kept_id)
        THEN GetAction(id_to_action, kept_id) \in Range(actions)
        ELSE GetAction(id_to_action, kept_id) = NoMove

C5_Witness ==
    /\ kept_id # None /\ kept_stale
    /\ IsValidActionId(id_to_action, kept_id)
    /\ last_call.op = "set_actions"

-----------------------------------------------------------------------------
(* Properties of the server *)

\* the moves of a list that have a twin: another object with the same discriminator
Twins(l) ==
    {m \in Range(l) : \E m2 \in Range(l) : m2 # m /\ Discriminator(m2) = Discriminator(m)}

\* get_selected_action() after handle_tool_call("select_action", {"action_id": id})
SelectedAfterSelect(action_id) ==
    GetSelectedActionOf(
        ToolOutcome(game_wrapper, id_to_action, selected_action_id,
                    "select_action", DictInput(StrId(action_id)), FALSE).selected,
        id_to_action)

\* C4: moves with identical action type and value each have an id of their own,
\* distinct from every other id of the list, and selecting a move's id makes
\* get_selected_action return that very move.
C4_TwinsSelectable ==
    game_wrapper # NoWrapper =>
        \A m \in Twins(actions) :
            /\ GetActionId(action_to_id, m) # None
            /\ \A m2 \in Range(actions) \ {m} :
                  GetActionId(action_to_id, m2) # GetActionId(action_to_id, m)
            /\ SelectedAfterSelect(GetActionId(action_to_id, m)) = m

\* a select_action input that is missing, empty or not in the mapping d
NotInMapping(d, input) == input.k # "dict" \/ ~InMapping(d, input.action_id)

\* C6: a select_action call whose action_id is missing, empty or not in the current
\* mapping leaves get_selected_action() as it was.
C6_RejectedSelectKeepsSelection ==
    [][ (/\ last_call'.op = "handle_tool_call"
         /\ last_call'.name = "select_action"
         /\ NotInMapping(id_to_action, last_call'.input))
        => GetSelectedActionOf(selected_action_id', id_to_action') = GetSelectedAction ]_vars

C6_Witness ==
    /\ last_call.op = "handle_tool_call" /\ last_call.name = "select_action"
    /\ last_call.input.k = "dict" /\ last_call.input.action_id.k = "str"
    /\ NotInMapping(id_to_action, last_call.input)
    /\ last_call.had_selection
    /\ GetSelectedAction # NoMove

\* C7: get_selected_action() is None right after every set_game_context that
\* returned, and it is not None only if a select_action was accepted since.
C7_SelectionOnlyAfterAccept ==
    /\ (last_call.op = "set_game_context" /\ ~last_call.raised)
          => GetSelectedAction = NoMove
    /\ GetSelectedAction # NoMove => last_accepted # None

\* set_game_context returned in a context that held a selection and was not cleared
C7_Witness ==
    /\ last_call.op = "set_game_context" /\ ~last_call.raised
    /\ ~last_call.idle /\ last_call.had_selection
    /\ Len(actions) > 0

\* C8: after accepted select_action calls in a context, get_selected_action() is the
\* move the mapping gives for the latest accepted id, a move of the context's list.
C8_SelectionIsLatestAccepted ==
    (game_wrapper # NoWrapper /\ last_accepted # None) =>
        /\ GetSelectedAction = GetAction(id_to_action, last_accepted)
        /\ GetSelectedAction \in Range(actions)

\* a second select_action was accepted in the same context, for another id
C8_Witness ==
    /\ last_call.op = "handle_tool_call" /\ last_result.success
    /\ last_call.had_selection
    /\ last_accepted # None
    /\ \E m \in Range(actions) :
          m # GetSelectedAction /\ GetActionId(action_to_id, m) # last_accepted

\* C9: after clear_context, get_selected_action() is None and every id that was
\* valid before is invalid: select_action rejects it and the mapper does not
\* resolve it.
C9_ClearInvalidatesIds ==
    [][ last_call'.op = "clear_context" =>
          /\ GetSelectedActionOf(selected_action_id', id_to_action') = NoMove
          /\ \A action_id \in Keys(id_to_action) :
                /\ ~ToolOutcome(game_wrapper', id_to_action', selected_action_id',
                                "select_action", DictInput(StrId(action_id)),
                                FALSE).result.success
                /\ ~IsValidActionId(id_to_action', action_id)
                /\ GetAction(id_to_action', action_id) = NoMove ]_vars

\* C10: in the Idle state every handle_tool_call returns a JSON object with an
\* error string, raises nothing and leaves the server Idle with no selection.
C10_IdleCallsReturnError ==
    (last_call.op = "handle_tool_call" /\ last_call.idle) =>
        /\ ~last_result.raised
        /\ last_result.error # None
        /\ game_wrapper = NoWrapper
        /\ selected_action_id = None
        /\ GetSelectedAction = NoMove

\* select_action called in the Idle state with an id the mapper still holds
C10_Witness ==
    /\ last_call.op = "handle_tool_call" /\ last_call.idle
    /\ last_call.name = "select_action"
    /\ InMapping(id_to_action, last_call.input.action_id)

\* C11: in the Active state handle_tool_call never raises, whatever the tool name
\* and the tool input (action_id missing, a number, a list, arguments that are
\* not a JSON object): it returns a JSON result or a JSON error object with an
\* error string.
C11_ActiveCallsNeverRaise ==
    (last_call.op = "handle_tool_call" /\ ~last_call.idle) =>
        /\ ~last_result.raised
        /\ (last_result.error # None \/ last_result.body # None)

-----------------------------------------------------------------------------
(* Properties of decide *)

\* C1: whatever the agent and the transport do, decide returns one move, and it is
\* a member of the playable_actions passed to that call.
C1_DecideReturnsPlayableAction ==
    pc = "returned" => returned \in Range(playable_actions)

\* decide returned a fallback move although the server holds an accepted selection
C1_Witness ==
    /\ pc = "returned"
    /\ used_fallback
    /\ selected_action_id # None
    /\ Len(playable_actions) > 1

\* C2: a decision runs at most MaxTurns rounds of at most max_retries transport
\* attempts each, so at most MaxTurns * max_retries attempts, and then decide returns.
C2_DecisionTerminates ==
    /\ [](turn < MaxTurns /\ attempt <= max_retries
          /\ attempts_made <= MaxTurns * max_retries)
    /\ [](pc \in {"request", "tools", "finish"} => <>(pc = "returned"))

\* the worst case: every round used all its attempts and the budget ran out
C2_Witness ==
    /\ pc = "finish"
    /\ max_retries = MaxRetries
    /\ attempts_made = MaxTurns * max_retries
    /\ turn = MaxTurns - 1

\* C12: clear_context is called once per decide whatever the outcome (accepted
\* selection, fallback, an exception inside decide), so whenever decide has
\* returned the server is Idle: game_wrapper is None and selected_action_id is None.
C12_IdleAfterDecide ==
    pc = "returned" => (game_wrapper = NoWrapper /\ selected_action_id = None)

\* C13: once the server has accepted a select_action of a running decision, no
\* later tool call is executed and no further request is sent: the only step
\* that follows is the return of decide, with the selected move.
C13_AcceptedSelectionEndsDecision ==
    [][ (pc \in {"request", "tools", "finish"} /\ selected_action_id # None)
          => (pc' = "returned" /\ returned' = GetSelectedAction) ]_vars

\* C14: a select_action call the server rejects does not end the negotiation:
\* the loop goes on with the remaining calls and rounds, so it ends after a
\* rejected select_action only when that call was the last one of the budget.
C14_RejectedSelectionGoesOn ==
    (pc = "finish" /\ ended_by = "rejected")
        => (calls_left = 0 /\ turn = MaxTurns - 1)

\* C15: the random fallback is used only when get_selected_action() is empty at
\* the end of the negotiation: when the server holds an accepted selection, decide
\* returns exactly that move, whatever the later steps of decide do.
C15_FallbackOnlyWithoutSelection ==
    [][ (pc = "finish" /\ pc' = "returned" /\ GetSelectedAction # NoMove)
          => (returned' = GetSelectedAction /\ ~used_fallback') ]_vars

\* C16: a response without tool calls is the last one of its decision: when the
\* first response has none, exactly one request was made (one response, no second
\* round), and decide returns a fallback move that is a member of playable_actions.
C16_NoToolCallsEndsLoop ==
    /\ [][ (responses' = responses + 1 /\ calls_left' = 0 /\ ended_by' # "bad_response")
            => (pc' = "finish" /\ ended_by' = "no_tool_calls"
                /\ (responses = 0 => (turn' = 0 /\ responses' = 1))) ]_vars
    /\ [][ (pc = "finish" /\ ended_by = "no_tool_calls")
            => (pc' = "returned" /\ used_fallback'
                /\ returned' \in Range(playable_actions)) ]_vars

\* the first response of a decision had no tool calls and decide has returned
C16_Witness ==
    /\ pc = "returned"
    /\ ended_by = "no_tool_calls"
    /\ \E usage \in UsageValues :
          tokens = usage.prompt_tokens + usage.completion_tokens
    /\ used_fallback
    /\ Len(playable_actions) > 1

\* C17: when every transport attempt fails, _make_request_with_retry makes exactly
\* max_retries attempts and returns None, no second round is started, and decide
\* returns (no exception leaves it) a member of playable_actions, the only move
\* of a one-element list.
C17_AllAttemptsFail ==
    /\ []((pc = "finish" /\ ended_by = "api_error")
            => (attempt = max_retries
                /\ (responses = 0 => (attempts_made = max_retries /\ turn = 0))))
    /\ [][ (pc = "finish" /\ ended_by = "api_error")
            => (pc' = "returned" /\ returned' \in Range(playable_actions)
                /\ (Len(playable_actions) = 1 => returned' = playable_actions[1])) ]_vars

\* every attempt of the first round failed, with the largest retry ceiling,
\* for a list of one move
C17_Witness ==
    /\ pc = "finish"
    /\ ended_by = "api_error"
    /\ responses = 0
    /\ max_retries = MaxRetries
    /\ attempts_made = MaxRetries
    /\ Len(playable_actions) = 1

\* C18: when every round is answered with tool calls none of which is
\* select_action, the loop performs exactly MaxTurns rounds, sends no further
\* request, raises nothing, and decide returns a fallback move of playable_actions.
C18_BudgetSpentWithoutSelection ==
    /\ (pc = "finish" /\ ended_by \in {"budget", "tool_raised"})
          => (ended_by = "budget" /\ responses = MaxTurns /\ turn = MaxTurns - 1)
    /\ (pc = "returned" /\ ended_by \in {"budget", "tool_raised"})
          => (used_fallback /\ returned \in Range(playable_actions))

\* C19: the usage a decision reports to decide (and decide adds to the totals) is
\* the sum of the usage of every response received in that decision, however the
\* query ended.
C19_UsageIsSumOfResponses ==
    pc = "finish" =>
        /\ tokens = total_input_tokens + total_output_tokens
        /\ cost = CalculateCost(total_input_tokens, total_output_tokens)

\* C20: the outcome of every decision tells whether the move came from the
\* fallback: the move record decide logs carries a fellBack indication, true
\* exactly when _fallback_action picked the returned move.
C20_OutcomeTellsFallback ==
    pc = "returned" =>
        /\ "fellBack" \in DOMAIN MoveData
        /\ MoveData.fellBack = used_fallback

\* a select_action call that returned without accepting the id
FailedSelect ==
    /\ last_call.op = "handle_tool_call" /\ last_call.name = "select_action"
    /\ ~last_result.raised /\ ~last_result.success

ToolCallStep(tool_name) ==
    /\ last_call'.op = "handle_tool_call"
    /\ last_call'.name = tool_name

\* C23: get_game_state and get_valid_actions are read-only: for any arguments and in
\* any server state they leave the game, the id mapping and the pending selection
\* unchanged, so that select_action accepts and get_selected_action returns the
\* same after the call as before it.
C23_ReadToolsChangeNothing ==
    [][ (ToolCallStep("get_game_state") \/ ToolCallStep("get_valid_actions")) =>
          /\ game' = game
          /\ actions' = actions
          /\ id_to_action' = id_to_action
          /\ action_to_id' = action_to_id
          /\ selected_action_id' = selected_action_id
          /\ game_wrapper' = game_wrapper
          /\ GetSelectedActionOf(selected_action_id', id_to_action') = GetSelectedAction
          /\ \A input \in ToolInputs("select_action") :
                ToolOutcome(game_wrapper', id_to_action', selected_action_id',
                            "select_action", input, FALSE)
                  = ToolOutcome(game_wrapper, id_to_action, selected_action_id,
                                "select_action", input, FALSE) ]_vars

\* get_valid_actions returned in a context that holds a selection, after the
\* engine had played
C23_Witness ==
    /\ last_call.op = "handle_tool_call" /\ last_call.name = "get_valid_actions"
    /\ ~last_call.idle /\ last_call.had_selection
    /\ last_result.body = "actions"
    /\ GetSelectedAction # NoMove
    /\ Len(game.actions) > 0

\* C24: an accepted select_action changes only the pending selection: the move is
\* not executed, and the game, the list of playable actions and the id mapping are
\* the same before and after the call.
C24_AcceptedSelectOnlyRecords ==
    [][ (ToolCallStep("select_action") /\ last_result'.success) =>
          /\ game' = game
          /\ actions' = actions
          /\ id_to_action' = id_to_action
          /\ action_to_id' = action_to_id
          /\ game_wrapper' = game_wrapper
          /\ selected_action_id' = last_result'.action_id ]_vars

\* a select_action was accepted among several playable actions
C24_Witness ==
    /\ last_call.op = "handle_tool_call" /\ last_call.name = "select_action"
    /\ last_result.success
    /\ selected_action_id = last_result.action_id
    /\ Len(actions) > 1

\* C28: a call of an unknown tool in the Active state returns a JSON error that
\* lists the available tools, changes neither the selection nor the mapping, and
\* does not end the negotiation: the loop goes on with the next tool call of the
\* response or, after the last one, with the next round while rounds are left.
C28_UnknownToolIsRecoverable ==
    [][ (\E input \in ToolInputs("unknown_tool") : ExecToolCall("unknown_tool", input, FALSE)) =>
          /\ game_wrapper # NoWrapper
          /\ \A input \in ToolInputs("unknown_tool") :
                LET out == ToolOutcome(game_wrapper, id_to_action, selected_action_id,
                                       "unknown_tool", input, FALSE)
                IN  /\ ~out.result.raised
                    /\ out.result.error = "Unknown tool"
                    /\ out.result.available_tools
                    /\ out.selected = selected_action_id
          /\ selected_action_id' = selected_action_id
          /\ actions' = actions
          /\ id_to_action' = id_to_action
          /\ action_to_id' = action_to_id
          /\ calls_left > 1 => (pc' = "tools" /\ turn' = turn)
          /\ (calls_left = 1 /\ turn + 1 < MaxTurns) =>
                (pc' = "request" /\ turn' = turn + 1 /\ attempt' = 0)
          /\ (calls_left = 1 /\ turn + 1 >= MaxTurns) =>
                (pc' = "finish" /\ ended_by' = "budget") ]_vars

\* an unknown tool was called and the next tool call of the response is awaited
C28_Witness ==
    /\ pc = "tools"
    /\ last_tool = "unknown_tool"
    /\ calls_left > 0
    /\ game_wrapper # NoWrapper

\* ---------------------------------------------------------------------------------
\* BaseMCPPlayer: the statistics kept over a sequence of decide() calls

MaxMoves == 3

\* the last entries recent_moves keeps: "if len(self.recent_moves) > 5"
RecentLimit == 5

\* (input tokens, output tokens) an LLM query may report over its requests
StatsUsages == {<<0, 0>>, <<1, 1>>}

\* the lists of playable actions the engine hands to decide()
StatsLists == {<<1>>, <<2, 3>>}

\* how one decide() call goes once set_game_context has succeeded: the query raises,
\* the query returns and log_move raises, or the normal path runs to the return
DecideOutcomes == {"query_raised", "log_raised", "played"}

\* statistics updated after log_move instead of right after the query
StatsAfterLog(outcome, c, t) ==
    /\ total_cost' = IF outcome = "played" THEN total_cost + c ELSE total_cost
    /\ total_tokens' = IF outcome = "played" THEN total_tokens + t ELSE total_tokens
    /\ move_count' = IF outcome = "played" THEN move_count + 1 ELSE move_count

\* "self.total_cost += cost; self.total_tokens += tokens; self.move_count += 1",
\* reached when query_llm_with_mcp returned
StatsAfterQuery(outcome, c, t) ==
    /\ total_cost' = IF outcome # "query_raised" THEN total_cost + c ELSE total_cost
    /\ total_tokens' = IF outcome # "query_raised" THEN total_tokens + t ELSE total_tokens
    /\ move_count' = IF outcome # "query_raised" THEN move_count + 1 ELSE move_count

\* "self.recent_moves.append(...)" and the cut to the last RecentLimit entries
TrackMove(moves, move) ==
    LET all == Append(moves, move)
    IN  IF Len(all) > RecentLimit
        THEN SubSeq(all, Len(all) - RecentLimit + 1, Len(all))
        ELSE all

\* One whole decide(game, playable_actions) of a player of colour player_color: sel is
\* what the LLM left in selected_action_id during the query, usage what the query
\* reported.
DecideCall(player_color, list, outcome, sel, usage) ==
    LET maps == MapsOf[use_descriptive_ids, list]
        c == CalculateCost(usage[1], usage[2])
        t == usage[1] + usage[2]
        chosen == GetSelectedActionOf(sel, maps.ids)
    IN  /\ Len(reported) < MaxMoves
        /\ sel \in {None} \cup Keys(maps.ids)
        /\ pc' = "returned"
        /\ playable_actions' = list
        /\ IF player_color \notin GameColors
           THEN /\ ended_by' = "context_error"
                /\ returned' \in FallbackAction(list)
                /\ used_fallback' = TRUE
                /\ UNCHANGED <<mapper_vars, server_vars, stats_vars>>
           ELSE /\ actions' = list
                /\ id_to_action' = maps.ids
                /\ action_to_id' = maps.back
                /\ UNCHANGED use_descriptive_ids
                /\ StatsAfterQuery(outcome, c, t)
                /\ reported' = IF outcome # "query_raised"
                               THEN Append(reported, [cost |-> c, tokens |-> t])
                               ELSE reported
                /\ IF outcome = "played"
                   THEN /\ ended_by' = IF sel = None THEN "no_tool_calls" ELSE "accepted"
                        /\ IF chosen = NoMove
                           THEN returned' \in FallbackAction(list)
                           ELSE returned' = chosen
                        /\ used_fallback' = (chosen = NoMove)
                        /\ recent_moves' = TrackMove(recent_moves, returned')
                        /\ game_wrapper' = NoWrapper
                        /\ selected_action_id' = None
                   ELSE /\ ended_by' = outcome
                        /\ returned' \in FallbackAction(list)
                        /\ used_fallback' = TRUE
                        /\ game_wrapper' = [player_color |-> player_color]
                        /\ selected_action_id' = IF outcome = "log_raised" THEN sel ELSE None
                        /\ UNCHANGED recent_moves
        /\ UNCHANGED <<caller_vars, max_retries, turn, attempt, calls_left, attempts_made,
                       responses, total_input_tokens, total_output_tokens, cost, tokens,
                       last_tool>>

\* reset_state()
ResetState ==
    /\ recent_moves' = <<>>
    /\ total_cost' = 0
    /\ total_tokens' = 0
    /\ move_count' = 0
    /\ reported' = <<>>
    /\ UNCHANGED <<mapper_vars, server_vars, caller_vars, player_vars>>

StatsInit == PlayerInit

StatsNext ==
    \/ \E c \in CallerColors, list \in StatsLists, outcome \in DecideOutcomes,
          sel \in {None} \cup GeneratedIds, usage \in StatsUsages :
          DecideCall(c, list, outcome, sel, usage) /\ UNCHANGED idle_in_stats
    \/ ResetState /\ UNCHANGED idle_in_stats

StatsSpec == StatsInit /\ [][StatsNext]_vars

\* the costs and the token counts the returned queries reported
ReportedCosts == [i \in 1..Len(reported) |-> reported[i].cost]
ReportedTokens == [i \in 1..Len(reported) |-> reported[i].tokens]

\* C31: move_count is the number of decisions whose LLM query returned, total_cost and
\* total_tokens are the sums of what those queries reported, and after reset_state all
\* three are zero and recent_moves is empty.
C31_StatsCountReturnedQueries ==
    /\ move_count = Len(reported)
    /\ total_cost = Sum(ReportedCosts)
    /\ total_tokens = Sum(ReportedTokens)
    /\ Len(recent_moves) <= move_count
    /\ reported = <<>> => recent_moves = <<>>

\* two queries returned, one of them followed by a raising log_move, and the last
\* decision's query raised
C31_Witness ==
    /\ move_count = 2
    /\ total_tokens = 4
    /\ Len(recent_moves) = 1
    /\ ended_by = "query_raised"

\* ---------------------------------------------------------------------------------
\* game_runner.parse_player_spec

MaxParts == 3

\* the pieces player specifications are put together from, joined by "-"
SpecParts == {"", "claude", "Claude", "gpt", "4", "mcp", "text", "MCP"}

RECURSIVE JoinParts(_)
JoinParts(parts) ==
    IF Len(parts) = 1 THEN parts[1] ELSE parts[1] \o "-" \o JoinParts(Tail(parts))

PlayerSpecs == {JoinParts(parts) : parts \in UNION {[1..n -> SpecParts] : n \in 1..MaxParts}}

\* str.endswith
EndsWith(s, suffix) ==
    /\ Len(s) >= Len(suffix)
    /\ SubSeq(s, Len(s) - Len(suffix) + 1, Len(s)) = suffix

\* s[:-n]
DropLast(s, n) == SubSeq(s, 1, Max({0, Len(s) - n}))

\* parse_player_spec matching the suffix whatever its letter case
ParsePlayerSpecAnyCase(spec) ==
    IF EndsWith(Lower(spec), "-mcp") THEN [model_key |-> DropLast(spec, 4), mode |-> "mcp"]
    ELSE IF EndsWith(Lower(spec), "-text")
         THEN [model_key |-> DropLast(spec, 5), mode |-> "text"]
         ELSE [model_key |-> spec, mode |-> None]

\* parse_player_spec(player_spec)
ParsePlayerSpec(spec) ==
    IF EndsWith(spec, "-mcp") THEN [model_key |-> DropLast(spec, 4), mode |-> "mcp"]
    ELSE IF EndsWith(spec, "-text")
         THEN [model_key |-> DropLast(spec, 5), mode |-> "text"]
         ELSE [model_key |-> spec, mode |-> None]

ParseInit ==
    /\ NoSession
    /\ NoStats
    /\ NoElo
    /\ NoRun
    /\ NoConversation
    /\ NoDecisions
    /\ player_spec \in PlayerSpecs
    /\ parsed = NotParsed

\* the runner parses the specification it was given
Parse ==
    /\ parsed = NotParsed
    /\ parsed' = ParsePlayerSpec(player_spec)
    /\ UNCHANGED player_spec

ParseNext == Parse /\ UNCHANGED idle_in_parse

ParseSpec == ParseInit /\ [][ParseNext]_vars

\* s is some string followed by suffix
IsFollowedBy(s, suffix) == \E n \in 0..Len(s) : SubSeq(s, 1, n) \o suffix = s

\* C32: the mode is "mcp" exactly for a specification ending in "-mcp", "text" exactly
\* for one ending in "-text" and None otherwise; the model key is the specification
\* without that one suffix, every other character unchanged.
C32_ParseSplitsOneSuffix ==
    parsed # NotParsed =>
        /\ parsed.mode = "mcp" <=> IsFollowedBy(player_spec, "-mcp")
        /\ parsed.mode = "text" <=> IsFollowedBy(player_spec, "-text")
        /\ parsed.mode = None <=>
              ~IsFollowedBy(player_spec, "-mcp") /\ ~IsFollowedBy(player_spec, "-text")
        /\ parsed.mode = "mcp" => parsed.model_key \o "-mcp" = player_spec
        /\ parsed.mode = "text" => parsed.model_key \o "-text" = player_spec
        /\ parsed.mode = None => parsed.model_key = player_spec

\* a specification with two suffixes and a capital letter: only the last suffix goes
C32_Witness ==
    /\ player_spec = "Claude-text-mcp"
    /\ parsed = [model_key |-> "Claude-text", mode |-> "mcp"]

\* ---------------------------------------------------------------------------------
\* EloRating.  Ratings are kept in thousandths of a point and scores in thousandths,
\* so that the arithmetic of update_ratings stays within the integers.

MaxEloGames == 2

\* DEFAULT_ELO and DEFAULT_K_FACTOR
DefaultElo == 1500000
KFactor == 32

\* the keys of the scores dicts handed to update_ratings
EloKeys == {"a:RED", "b", "a:BLUE"}
VictoryPoints == {7, 10}

\* the scores dicts, in insertion order: one or two of EloKeys, and the three-player
\* games of a, b and c
EloSheets ==
    {<<<<k, v>>>> : k \in EloKeys, v \in VictoryPoints}
    \cup {<<<<k1, v1>>, <<k2, v2>>>> : k1, k2 \in EloKeys, v1, v2 \in VictoryPoints}
    \cup {<<<<"a:RED", v1>>, <<"b", v2>>, <<"c", v3>>>> : v1, v2, v3 \in VictoryPoints}

\* a dict has every key once
DictSheets == {sheet \in EloSheets : \A i, k \in 1..Len(sheet) :
                                         sheet[i][1] = sheet[k][1] => i = k}

\* player_key.rsplit(":", 1)[0] if ":" in player_key else player_key
PlayerId(player_key) ==
    LET colons == {i \in 1..Len(player_key) : CharAt(player_key, i) = ":"}
    IN  IF colons = {} THEN player_key ELSE SubSeq(player_key, 1, Max(colons) - 1)

\* the loop filling player_scores
RECURSIVE PlayerScoresFrom(_, _)
PlayerScoresFrom(scores, player_scores) ==
    IF Len(scores) = 0 THEN player_scores
    ELSE PlayerScoresFrom(Tail(scores),
                          Store(player_scores, PlayerId(scores[1][1]), scores[1][2]))

PlayerScores(scores) == PlayerScoresFrom(scores, <<>>)

\* the position, from 1, of entry i of player_scores in
\* sorted(player_scores.items(), key=lambda x: -x[1]): sorted is stable
Placement(player_scores, i) ==
    1 + Cardinality({k \in 1..Len(player_scores) :
                        \/ player_scores[k][2] > player_scores[i][2]
                        \/ player_scores[k][2] = player_scores[i][2] /\ k < i})

Placements(player_scores) ==
    [p \in Keys(player_scores) |->
        Placement(player_scores, CHOOSE i \in 1..Len(player_scores) : player_scores[i][1] = p)]

\* get_rating(player_id)
GetRating(rs, player_id) == IF player_id \in DOMAIN rs THEN rs[player_id] ELSE DefaultElo

\* {p: self.get_rating(p) for p in player_scores}
CurrentRatings(rs, player_scores) == [p \in Keys(player_scores) |-> GetRating(rs, p)]

\* the sum of the values of a dict over the keys of S
RECURSIVE SumOver(_, _)
SumOver(f, S) ==
    IF S = {} THEN 0 ELSE LET p == CHOOSE q \in S : TRUE IN f[p] + SumOver(f, S \ {p})

\* sum(opponents) / len(opponents) if opponents else self.default_elo
OpponentAvg(current, player_id) ==
    LET opponents == DOMAIN current \ {player_id}
    IN  IF opponents = {} THEN DefaultElo
        ELSE SumOver(current, opponents) \div Cardinality(opponents)

\* _expected_score in thousandths: 1 / (1 + 10^((opponent_avg - player_rating) / 400)),
\* followed along its tangent at equal ratings (slope ln(10)/1600 per point) and kept
\* within [0, 1]
ExpectedScore(player_rating, opponent_avg) ==
    LET e == 500 - ((opponent_avg - player_rating) * 1439) \div 1000000
    IN  IF e < 0 THEN 0 ELSE IF e > 1000 THEN 1000 ELSE e

\* _actual_score(placement, num_players) in thousandths
ActualScore(placement, num_players) ==
    IF num_players <= 1 THEN 500
    ELSE 1000 - ((placement - 1) * 1000) \div (num_players - 1)

\* the rating_changes entry of one player, computed from the ratings in current
RatingChange(current, placements, player_id) ==
    LET old_rating == current[player_id]
        expected == ExpectedScore(old_rating, OpponentAvg(current, player_id))
        actual == ActualScore(placements[player_id], Cardinality(DOMAIN current))
        change == KFactor * (actual - expected)
    IN  [old |-> old_rating, new |-> old_rating + change, change |-> change,
         placement |-> placements[player_id], expected |-> expected, actual |-> actual]

RatingChanges(current, placements) ==
    [p \in DOMAIN current |-> RatingChange(current, placements, p)]

\* "self.ratings[player_id] = new_rating" for every player of the game
RatingsAfter(rs, changes) ==
    [p \in DOMAIN rs \cup DOMAIN changes |->
        IF p \in DOMAIN changes THEN changes[p].new ELSE rs[p]]

\* game_counts of a defaultdict(int)
GameCount(counts, player_id) == IF player_id \in DOMAIN counts THEN counts[player_id] ELSE 0

\* a loop that counts the game for its winner only
GameCountsAfterWinnerOnly(counts, changes) ==
    LET winners == {p \in DOMAIN changes : changes[p].placement = 1}
    IN  [p \in DOMAIN counts \cup winners |->
            IF p \in winners THEN GameCount(counts, p) + 1 ELSE counts[p]]

\* "self.game_counts[player_id] += 1" for every player of the game
GameCountsAfter(counts, changes) ==
    [p \in DOMAIN counts \cup DOMAIN changes |->
        IF p \in DOMAIN changes THEN GameCount(counts, p) + 1 ELSE counts[p]]

\* the entry appended to history, without its timestamp and session id
HistoryEntry(player_scores, placements, changes) ==
    [players |-> [i \in 1..Len(player_scores) |-> player_scores[i][1]],
     scores |-> player_scores,
     placements |-> placements,
     rating_changes |-> changes]

\* update_ratings({"scores": scores}) on the rating system e: the system afterwards
\* and the returned rating_changes
UpdateRatings(e, scores) ==
    LET player_scores == PlayerScores(scores)
        placements == Placements(player_scores)
        changes == RatingChanges(CurrentRatings(e.ratings, player_scores), placements)
    IN  IF Len(player_scores) < 2
        THEN [elo |-> e, changes |-> NoEntries]
        ELSE [elo |-> [ratings |-> RatingsAfter(e.ratings, changes),
                       game_counts |-> GameCountsAfter(e.game_counts, changes),
                       history |-> Append(e.history,
                                          HistoryEntry(player_scores, placements, changes))],
              changes |-> changes]

\* the rating system as one value
Elo == [ratings |-> ratings, game_counts |-> game_counts, history |-> history]

EloInit ==
    /\ NoSession
    /\ NoExtra

\* one update_ratings call from start to return, no other call running
UpdateRatingsCall(scores) ==
    LET out == UpdateRatings(Elo, scores)
    IN  /\ elo_games < MaxEloGames
        /\ ratings' = out.elo.ratings
        /\ game_counts' = out.elo.game_counts
        /\ history' = out.elo.history
        /\ elo_call' = scores
        /\ elo_before' = Elo
        /\ elo_changes' = out.changes
        /\ elo_games' = IF Len(PlayerScores(scores)) >= 2 THEN elo_games + 1 ELSE elo_games
        /\ UNCHANGED elo_thread

EloNext == \E scores \in DictSheets : UpdateRatingsCall(scores) /\ UNCHANGED idle_in_elo

EloSpec == EloInit /\ [][EloNext]_vars

\* the player ids the sheets can name
EloIds == {PlayerId(k) : k \in EloKeys} \cup {"c"}

\* C33: history has one entry per update_ratings call with at least two players,
\* game_counts[p] is the number of history entries whose placements contain p, and every
\* player of every recorded game has a stored rating.
C33_HistoryCountsAndRatingsAgree ==
    /\ Len(history) = elo_games
    /\ \A p \in EloIds :
          GameCount(game_counts, p)
              = Cardinality({i \in 1..Len(history) : p \in DOMAIN history[i].placements})
    /\ \A i \in 1..Len(history) : DOMAIN history[i].placements \subseteq DOMAIN ratings

\* two games recorded, a in both and c in the second only
C33_Witness ==
    /\ Len(history) = 2
    /\ GameCount(game_counts, "a") = 2
    /\ GameCount(game_counts, "c") = 1
    /\ GameCount(game_counts, "b") = 2
    /\ {"a", "b", "c"} \subseteq DOMAIN ratings

\* the scores dicts with the same (player, score) pairs as scores, in any order
SameScores(scores) == {q \in DictSheets : Range(q) = Range(scores)}

\* C39: the result of update_ratings depends on the (player, score) pairs and the
\* ratings before the game only, not on the order of the pairs; changes start from the
\* ratings before the game; a strictly higher score gives a strictly better placement;
\* equal scores give the same placement and the same actual score.
C39_ResultIgnoresListingOrder ==
    elo_changes # NoEntries =>
        LET ps == PlayerScores(elo_call)
            vp == [p \in Keys(ps) |-> Lookup(ps, p)]
        IN  /\ \A q \in SameScores(elo_call) :
                  UpdateRatings(elo_before, q).changes = elo_changes
            /\ \A p \in DOMAIN elo_changes :
                  elo_changes[p].old = GetRating(elo_before.ratings, p)
            /\ \A p, q \in DOMAIN elo_changes :
                  /\ vp[p] > vp[q] => elo_changes[p].placement < elo_changes[q].placement
                  /\ vp[p] = vp[q] =>
                        /\ elo_changes[p].placement = elo_changes[q].placement
                        /\ elo_changes[p].actual = elo_changes[q].actual

\* ---------------------------------------------------------------------------------
\* update_ratings called by the game threads of _run_tournament_parallel: run_game
\* calls self.elo.update_ratings on the runner's one EloRating, outside any lock.

\* the scores of the games that finish concurrently: two-player games of a and b
ParallelSheets == {sheet \in DictSheets : Len(sheet) = 2 /\ Keys(sheet) = {"a:RED", "b"}}

\* thread w enters update_ratings: player_scores, placements and current_ratings are
\* built from the ratings stored at that moment
EloRead(w, scores) ==
    /\ elo_thread[w].pc = "idle"
    /\ elo_thread' = [elo_thread EXCEPT ![w] =
                         [pc |-> "read", scores |-> scores,
                          current |-> CurrentRatings(ratings, PlayerScores(scores))]]
    /\ UNCHANGED <<ratings, game_counts, history, elo_call, elo_before, elo_changes,
                   elo_games>>

\* thread w runs the loop that stores the new ratings and counts the game
EloWrite(w) ==
    /\ elo_thread[w].pc = "read"
    /\ LET changes == RatingChanges(elo_thread[w].current,
                                    Placements(PlayerScores(elo_thread[w].scores)))
       IN  /\ ratings' = RatingsAfter(ratings, changes)
           /\ game_counts' = GameCountsAfter(game_counts, changes)
    /\ elo_thread' = [elo_thread EXCEPT ![w].pc = "written"]
    /\ UNCHANGED <<history, elo_call, elo_before, elo_changes, elo_games>>

\* thread w appends its history entry, saves and returns
EloRecord(w) ==
    /\ elo_thread[w].pc = "written"
    /\ LET player_scores == PlayerScores(elo_thread[w].scores)
           placements == Placements(player_scores)
       IN  history' = Append(history,
                             HistoryEntry(player_scores, placements,
                                          RatingChanges(elo_thread[w].current, placements)))
    /\ elo_thread' = [elo_thread EXCEPT ![w].pc = "done"]
    /\ UNCHANGED <<ratings, game_counts, elo_call, elo_before, elo_changes, elo_games>>

EloParallelNext ==
    \/ \E w \in Workers, scores \in ParallelSheets :
          EloRead(w, scores) /\ UNCHANGED idle_in_elo
    \/ \E w \in Workers : EloWrite(w) /\ UNCHANGED idle_in_elo
    \/ \E w \in Workers : EloRecord(w) /\ UNCHANGED idle_in_elo

EloParallelSpec == EloInit /\ [][EloParallelNext]_vars

\* the orders in which the games of the threads can be applied one at a time
WorkerOrders ==
    {order \in [1..MaxWorkers -> Workers] : \A i, k \in 1..MaxWorkers :
                                                 order[i] = order[k] => i = k}

\* the rating system after update_ratings for the games of the first n threads of order
RECURSIVE OneAtATime(_, _)
OneAtATime(order, n) ==
    IF n = 0 THEN [ratings |-> NoEntries, game_counts |-> NoEntries, history |-> <<>>]
    ELSE UpdateRatings(OneAtATime(order, n - 1), elo_thread[order[n]].scores).elo

\* C38: when all concurrently finishing games have returned from update_ratings,
\* ratings, game_counts and history are those of applying update_ratings for these
\* games one at a time in some order.
C38_ConcurrentUpdatesAreNotLost ==
    (\A w \in Workers : elo_thread[w].pc = "done") =>
        \E order \in WorkerOrders : Elo = OneAtATime(order, MaxWorkers)

\* ---------------------------------------------------------------------------------
\* _run_tournament_parallel: the pool threads run run_single_game for the submitted
\* games, the calling thread collects the futures as they complete.

\* what run_game gives: an exception, or a result with "total_cost" and "total_tokens"
RunGameOutcomes ==
    {GameFailed}
    \cup {[ok |-> TRUE, total_cost |-> CalculateCost(u[1], u[2]),
           total_tokens |-> u[1] + u[2]] : u \in StatsUsages}

\* a "with lock" that never waits
LockFreeAlways(holder) == TRUE

\* "with lock": the lock can be taken when no thread holds it
LockFree(holder) == holder = 0

\* a pool thread takes the next submitted game and runs run_game for it
RunSingleGame(w, g, result) ==
    /\ run_thread[w].pc = "idle"
    /\ futures[g].state = "queued"
    /\ \A earlier \in 1..(g - 1) : futures[earlier].state # "queued"
    /\ futures' = [futures EXCEPT ![g].state = "running"]
    /\ run_thread' = [run_thread EXCEPT ![w] = [OutsideRun EXCEPT !.pc = "wait", !.game = g,
                                                                  !.result = result]]
    /\ UNCHANGED <<games_completed, run_cost, run_tokens, all_results, lock>>

\* "with lock:" entered, in the try block or in the except block
AcquireLock(w) ==
    /\ run_thread[w].pc = "wait"
    /\ LockFree(lock)
    /\ lock' = w
    /\ run_thread' = [run_thread EXCEPT ![w].pc = "locked"]
    /\ UNCHANGED <<games_completed, run_cost, run_tokens, all_results, futures>>

\* the reads of "games_completed += 1", "total_cost += game_cost" and
\* "total_tokens += game_tokens"
LoadTotals(w) ==
    /\ run_thread[w].pc = "locked"
    /\ run_thread' = [run_thread EXCEPT ![w].pc = "loaded",
                                        ![w].completed = games_completed,
                                        ![w].cost = run_cost,
                                        ![w].tokens = run_tokens]
    /\ UNCHANGED <<games_completed, run_cost, run_tokens, all_results, lock, futures>>

\* the writes of the three statements; the except block has the first one only
StoreTotals(w) ==
    /\ run_thread[w].pc = "loaded"
    /\ games_completed' = run_thread[w].completed + 1
    /\ IF ~run_thread[w].result.ok
       THEN UNCHANGED <<run_cost, run_tokens>>
       ELSE /\ run_cost' = run_thread[w].cost + run_thread[w].result.total_cost
            /\ run_tokens' = run_thread[w].tokens + run_thread[w].result.total_tokens
    /\ run_thread' = [run_thread EXCEPT ![w].pc = "stored"]
    /\ UNCHANGED <<all_results, lock, futures>>

\* the end of the with block and the return of run_single_game: the future is done
ReleaseLock(w) ==
    /\ run_thread[w].pc = "stored"
    /\ lock' = IF lock = w THEN 0 ELSE lock
    /\ futures' = [futures EXCEPT ![run_thread[w].game] =
                      [state |-> "done", result |-> run_thread[w].result]]
    /\ run_thread' = [run_thread EXCEPT ![w] = OutsideRun]
    /\ UNCHANGED <<games_completed, run_cost, run_tokens, all_results>>

\* "for future in as_completed(futures)": the result of a finished game is appended
\* unless it is None
CollectResult(g) ==
    /\ futures[g].state = "done"
    /\ futures' = [futures EXCEPT ![g].state = "collected"]
    /\ all_results' = IF futures[g].result.ok
                      THEN Append(all_results, [game |-> g, result |-> futures[g].result])
                      ELSE all_results
    /\ UNCHANGED <<games_completed, run_cost, run_tokens, lock, run_thread>>

RunInit ==
    /\ NoSession
    /\ NoExtra

RunNext ==
    \/ \E w \in Workers, g \in RunGames, result \in RunGameOutcomes :
          RunSingleGame(w, g, result) /\ UNCHANGED idle_in_run
    \/ \E w \in Workers : AcquireLock(w) /\ UNCHANGED idle_in_run
    \/ \E w \in Workers : LoadTotals(w) /\ UNCHANGED idle_in_run
    \/ \E w \in Workers : StoreTotals(w) /\ UNCHANGED idle_in_run
    \/ \E w \in Workers : ReleaseLock(w) /\ UNCHANGED idle_in_run
    \/ \E g \in RunGames : CollectResult(g) /\ UNCHANGED idle_in_run

RunSpec == RunInit /\ [][RunNext]_vars

\* the games whose run_game returned a result
Succeeded == {g \in RunGames : futures[g].state \in {"done", "collected"}
                                  /\ futures[g].result.ok}

\* the threads between the reads and the end of their with block
InsideLock == {w \in Workers : run_thread[w].pc \in {"locked", "loaded", "stored"}}

\* C37: the shared counters are read and written only by the thread holding the lock,
\* and when every future has been collected games_completed is the number of games
\* submitted, total_cost and total_tokens are the sums over the games that succeeded
\* and the returned list has exactly one result per succeeded game.
C37_TotalsChangeUnderLockOnly ==
    /\ \A w \in InsideLock : lock = w
    /\ (\A g \in RunGames : futures[g].state = "collected") =>
          /\ games_completed = MaxRunGames
          /\ run_cost = SumOver([g \in Succeeded |-> futures[g].result.total_cost], Succeeded)
          /\ run_tokens
                = SumOver([g \in Succeeded |-> futures[g].result.total_tokens], Succeeded)
          /\ Len(all_results) = Cardinality(Succeeded)
          /\ \A g \in Succeeded :
                Cardinality({i \in 1..Len(all_results) : all_results[i].game = g}) = 1

\* a finished tournament with one failed game and two succeeded games of different cost
C37_Witness ==
    /\ \A g \in RunGames : futures[g].state = "collected"
    /\ Cardinality(Succeeded) = 2
    /\ games_completed = 3
    /\ run_tokens = 2
    /\ Len(all_results) = 2

\* ---------------------------------------------------------------------------------
\* The conversation of query_llm_with_mcp: the list messages and what is sent.

\* requests followed in one conversation (the loop itself allows MaxTurns)
MaxRequests == 2

\* the names and the ids the tool calls of a response carry
ConvToolNames == {"get_valid_actions", "select_action"}
ToolCallIds == {"call_1", "call_2"}

ToolCall(name, id) == [name |-> name, id |-> id]

\* message.get("tool_calls", []) of a response: up to MaxCalls tool calls
ToolCallLists ==
    UNION {[1..n -> {ToolCall(name, id) : name \in ConvToolNames, id \in ToolCallIds}] :
              n \in 0..MaxCalls}

\* a loop that leaves the tool calls after select_action unprocessed and goes on
AfterToolCallSkipsRest(tool_name, rest) ==
    IF tool_name = "select_action" \/ Len(rest) = 0
    THEN [pc |-> "request", pending |-> <<>>]
    ELSE [pc |-> "tools", pending |-> rest]

\* where the loop over tool_calls goes after one tool call: select_action returns,
\* the last call of the response leads to the next turn
AfterToolCall(tool_name, rest) ==
    IF tool_name = "select_action" THEN [pc |-> "returned", pending |-> <<>>]
    ELSE IF Len(rest) = 0 THEN [pc |-> "request", pending |-> <<>>]
    ELSE [pc |-> "tools", pending |-> rest]

\* one turn up to the response: _make_request_with_retry(messages, tools) sends the
\* conversation; without a response the query returns, without tool calls the loop
\* breaks, otherwise the assistant message is appended
SendRequest(answered, tool_calls) ==
    /\ conv_pc = "request"
    /\ Len(requests) < Min({MaxRequests, MaxTurns})
    /\ requests' = Append(requests, messages)
    /\ IF ~answered \/ Len(tool_calls) = 0
       THEN /\ conv_pc' = "returned"
            /\ UNCHANGED <<messages, pending>>
       ELSE /\ messages' = Append(messages, Message("assistant", tool_calls, ""))
            /\ pending' = tool_calls
            /\ conv_pc' = "tools"
    /\ UNCHANGED executed

\* the body of "for tool_call in tool_calls": handle_tool_call, then the tool message;
\* an exception of handle_tool_call ends the query in its except branch
ProcessToolCall(raises) ==
    /\ conv_pc = "tools"
    /\ executed' = Append(executed, Head(pending))
    /\ IF raises
       THEN /\ conv_pc' = "returned"
            /\ pending' = <<>>
            /\ UNCHANGED messages
       ELSE LET after == AfterToolCall(Head(pending).name, Tail(pending))
            IN  /\ messages' = Append(messages, Message("tool", <<>>, Head(pending).id))
                /\ conv_pc' = after.pc
                /\ pending' = after.pending
    /\ UNCHANGED requests

ConvInit ==
    /\ NoSession
    /\ NoExtra

ConvNext ==
    \/ \E answered \in BOOLEAN, tool_calls \in ToolCallLists :
          SendRequest(answered, tool_calls) /\ UNCHANGED idle_in_conv
    \/ \E raises \in BOOLEAN : ProcessToolCall(raises) /\ UNCHANGED idle_in_conv

ConvSpec == ConvInit /\ [][ConvNext]_vars

\* the tool calls of the assistant messages of a conversation, in order
RECURSIVE ToolCallsOf(_)
ToolCallsOf(conversation) ==
    IF Len(conversation) = 0 THEN <<>>
    ELSE conversation[1].tool_calls \o ToolCallsOf(Tail(conversation))

\* the ids of the tool messages of a conversation, in order
RECURSIVE ToolResultIds(_)
ToolResultIds(conversation) ==
    IF Len(conversation) = 0 THEN <<>>
    ELSE (IF conversation[1].role = "tool" THEN <<conversation[1].tool_call_id>> ELSE <<>>)
         \o ToolResultIds(Tail(conversation))

\* every assistant message of the conversation is followed by one tool message per
\* tool call, in the order of the calls and with their ids
Answered(conversation) ==
    \A i \in 1..Len(conversation) :
        \A k \in 1..Len(conversation[i].tool_calls) :
            /\ i + k <= Len(conversation)
            /\ conversation[i + k].role = "tool"
            /\ conversation[i + k].tool_call_id = conversation[i].tool_calls[k].id

IsPrefix(a, b) == Len(a) <= Len(b) /\ SubSeq(b, 1, Len(a)) = a

\* no two tool calls of the conversation have the same id
DistinctIds(conversation) ==
    LET calls == ToolCallsOf(conversation)
    IN  \A i, k \in 1..Len(calls) : calls[i].id = calls[k].id => i = k

\* every tool call id of the conversation is the id of exactly one tool message
OneResultPerId(conversation) ==
    LET calls == ToolCallsOf(conversation)
    IN  \A c \in 1..Len(calls) :
            Cardinality({i \in 1..Len(conversation) :
                            /\ conversation[i].role = "tool"
                            /\ conversation[i].tool_call_id = calls[c].id}) = 1

SharedIds == UNION {Keys(MapsOf[TRUE, list].ids) : list \in StatsLists}

\* decide() of a player of game thread w: self.mcp_server.set_game_context(...)
DecideSetsContext(w, player_color, list) ==
    /\ deciding[w].pc = "idle"
    /\ SetContext(player_color, list)
    /\ deciding' = [deciding EXCEPT ![w] = [pc |-> "query", playable_actions |-> list,
                                            returned |-> NoMove]]

\* the LLM of thread w calls select_action during query_llm_with_mcp
QuerySelects(w, action_id) ==
    /\ deciding[w].pc = "query"
    /\ selected_action_id' =
          ToolOutcome(game_wrapper, id_to_action, selected_action_id, "select_action",
                      DictInput(StrId(action_id)), FALSE).selected
    /\ deciding' = [deciding EXCEPT ![w].pc = "get"]
    /\ UNCHANGED <<mapper_vars, game_wrapper>>

\* the query of thread w returns without a call of select_action
QueryEndsWithoutSelect(w) ==
    /\ deciding[w].pc = "query"
    /\ deciding' = [deciding EXCEPT ![w].pc = "get"]
    /\ UNCHANGED <<mapper_vars, server_vars>>

\* "selected_action = self.mcp_server.get_selected_action()" and the fallback
DecideGetsSelected(w) ==
    /\ deciding[w].pc = "get"
    /\ \E move \in IF GetSelectedAction = NoMove
                   THEN FallbackAction(deciding[w].playable_actions)
                   ELSE {GetSelectedAction} :
          deciding' = [deciding EXCEPT ![w].pc = "clear", ![w].returned = move]
    /\ UNCHANGED <<mapper_vars, server_vars>>

\* "self.mcp_server.clear_context()" and the return
DecideClearsContext(w) ==
    /\ deciding[w].pc = "clear"
    /\ ClearServer
    /\ deciding' = [deciding EXCEPT ![w].pc = "returned"]

SharedInit ==
    /\ NoSession
    /\ NoExtra

SharedNext ==
    \/ \E w \in Workers, c \in GameColors, list \in StatsLists :
          DecideSetsContext(w, c, list) /\ UNCHANGED idle_in_shared
    \/ \E w \in Workers, action_id \in SharedIds :
          QuerySelects(w, action_id) /\ UNCHANGED idle_in_shared
    \/ \E w \in Workers : QueryEndsWithoutSelect(w) /\ UNCHANGED idle_in_shared
    \/ \E w \in Workers : DecideGetsSelected(w) /\ UNCHANGED idle_in_shared
    \/ \E w \in Workers : DecideClearsContext(w) /\ UNCHANGED idle_in_shared

SharedSpec == SharedInit /\ [][SharedNext]_vars

\* C34: whatever the interleaving of the server calls of different games, what a
\* decide() call returns is a member of its own playable_actions.
C34_DecideReturnsOwnMove ==
    \A w \in Workers :
        deciding[w].pc \in {"clear", "returned"} =>
            deciding[w].returned \in Range(deciding[w].playable_actions)

C36_ValidActionsListsEveryMove ==
    (/\ last_call.op = "handle_tool_call" /\ last_call.name = "get_valid_actions"
     /\ ~last_call.idle /\ last_result.body = "actions")
    => LET body == ValidActionsBody(id_to_action)
       IN  /\ body.num_actions = Len(actions)
           /\ \A i \in 1..Len(actions) : body.actions[i].action = actions[i]
           /\ \A i \in 1..body.num_actions :
                 ToolOutcome(game_wrapper, id_to_action, selected_action_id,
                             "select_action", DictInput(StrId(body.actions[i].action_id)),
                             FALSE).result.success

====
